---- MODULE Spec2Model ----
(***************************************************************************)
(* Model of the YouTube transcript service (src/src/main.py).              *)
(*                                                                         *)
(* Text is modelled by TLA+ strings, read character by character with      *)
(* SubSeq, so that the regular expressions and the line-oriented loops of  *)
(* the source are computed as the source computes them.                    *)
(***************************************************************************)
EXTENDS Naturals, Integers, Sequences, FiniteSets, TLC

VARIABLES
    \* ---- caption transcoding (parse_vtt_content, convert_to_srt) ----
    vtt_content,    \* the markup handed to a transcoder
    vstage,         \* "idle" | "input" | "txt" | "srt"
    rendered,       \* the string the transcoder returned
    srt_lines,      \* convert_to_srt's srt_lines, each line with its origin
    \* ---- per-line cleaning ----
    text,           \* a text line handed to the cleaning steps
    cleaned,        \* the results of the cleaning passes made so far
    \* ---- one request to GET /transcript or GET /transcript/download ----
    route,          \* "transcript" | "download"
    url,            \* query parameter url
    lang,           \* query parameter lang
    format,         \* query parameter format (download only)
    pc,             \* "idle" | "start" | "list" | "fetch" | "done"
    video_id,       \* the extracted identifier
    max_retries,    \* retry_yt_dlp_operation's max_retries
    attempt,        \* retry_yt_dlp_operation's loop variable
    delay,          \* retry_yt_dlp_operation's delay
    calls,          \* per operation, the outcome of each invocation so far
    sleeps,         \* per operation, the time.sleep calls made so far
    available_languages,
    selected_language,
    response,       \* the HTTP response, status 0 while there is none
    \* ---- the listing a selection is made from ----
    info,           \* what get_video_info returned
    \* ---- one request to POST /transcripts/batch ----
    urls,           \* request.urls
    results,        \* batch_transcripts' results
    successful,     \* batch_transcripts' successful
    failed,         \* batch_transcripts' failed
    \* ---- one call of retry_yt_dlp_operation ----
    base,           \* the value of the parameter delay at the call
    outcome,        \* how the call ended: what it returned or raised
    \* ---- calls of download_subtitles ----
    call,           \* per caller, the position, parameters and locals of its call
    fs,             \* per directory name, None or Some(the files in it)
    \* ---- the routes' local set from what download_subtitles returned ----
    actual_language,
    \* ---- the requests served by one event loop ----
    tasks,          \* per request, its route and how far its handler has run
    running         \* the request whose handler holds the loop's thread, "" if none

vttVars == <<vtt_content, vstage, rendered, srt_lines>>
cleanVars == <<text, cleaned>>
reqVars == <<route, url, lang, format, pc, video_id, max_retries, attempt, delay,
             calls, sleeps, available_languages, selected_language, response>>
langVars == <<info>>
batchVars == <<urls, results, successful, failed>>
retryVars == <<base, outcome>>
downloadVars == <<call, fs>>
loopVars == <<tasks, running>>
moreVars == <<downloadVars, actual_language, loopVars>>
extraVars == <<langVars, batchVars, retryVars, moreVars>>
vars == <<vttVars, cleanVars, reqVars, extraVars>>

(***************************************************************************)
(* Bounds of the model.                                                    *)
(***************************************************************************)
MaxLines == 4       \* lines of a markup
MaxPieces == 3      \* pieces of a text line
MaxFiles == 2       \* files the client leaves in the scratch directory

(***************************************************************************)
(* String primitives of Python used by the source.                         *)
(***************************************************************************)
Ch(s, i) == SubSeq(s, i, i)

\* str[i:] with a 1-based index
From(s, i) == SubSeq(s, i, Len(s))

\* the pattern p occurs in s at position i
MatchAt(s, i, p) == i + Len(p) - 1 <= Len(s) /\ SubSeq(s, i, i + Len(p) - 1) = p

\* str.startswith
StartsWith(s, p) == MatchAt(s, 1, p)

\* str.endswith
EndsWith(s, p) == Len(s) >= Len(p) /\ MatchAt(s, Len(s) - Len(p) + 1, p)

\* the `in` operator on strings
Contains(s, p) == \E i \in 1..(Len(s) + 1) : MatchAt(s, i, p)

\* the whitespace str.strip removes
IsSpace(c) == c \in {" ", "\t", "\r"}

RECURSIVE LStrip(_)
LStrip(s) == IF s # "" /\ IsSpace(Ch(s, 1)) THEN LStrip(From(s, 2)) ELSE s

RECURSIVE RStrip(_)
RStrip(s) ==
    IF s # "" /\ IsSpace(Ch(s, Len(s))) THEN RStrip(SubSeq(s, 1, Len(s) - 1)) ELSE s

\* str.strip
Strip(s) == RStrip(LStrip(s))

\* the position of the first occurrence of p in s at or after i, 0 when none
RECURSIVE Find(_, _, _)
Find(s, p, i) ==
    IF i + Len(p) - 1 > Len(s) THEN 0
    ELSE IF MatchAt(s, i, p) THEN i
    ELSE Find(s, p, i + 1)

\* str.split('\n'): always at least one element
RECURSIVE Split(_, _)
Split(s, sep) ==
    LET k == Find(s, sep, 1)
    IN  IF k = 0 THEN <<s>>
        ELSE <<SubSeq(s, 1, k - 1)>> \o Split(From(s, k + Len(sep)), sep)

\* sep.join(seq)
RECURSIVE Join(_, _)
Join(seq, sep) ==
    IF seq = <<>> THEN ""
    ELSE IF Len(seq) = 1 THEN seq[1]
    ELSE seq[1] \o sep \o Join(Tail(seq), sep)

\* a replacement of the first occurrence only
ReplaceFirst(s, p, r) ==
    LET k == Find(s, p, 1)
    IN  IF k = 0 THEN s ELSE SubSeq(s, 1, k - 1) \o r \o From(s, k + Len(p))

\* str.replace(p, r) and re.sub of a literal pattern: leftmost matches, not overlapping
RECURSIVE Replace(_, _, _)
Replace(s, p, r) ==
    LET k == Find(s, p, 1)
    IN  IF k = 0 THEN s
        ELSE SubSeq(s, 1, k - 1) \o r \o Replace(From(s, k + Len(p)), p, r)

\* str(n) for a natural number
RECURSIVE Str(_)
Str(n) ==
    IF n < 10 THEN Ch("0123456789", n + 1)
    ELSE Str(n \div 10) \o Ch("0123456789", (n % 10) + 1)

(***************************************************************************)
(* Per-line cleaning: parse_vtt_content lines 242-245, convert_to_srt      *)
(* lines 282-285.                                                          *)
(***************************************************************************)
\* re.sub(r'<[^>]+>', '', s): a tag is '<', one or more characters other than '>',
\* then '>'; matches are taken leftmost and do not overlap
RECURSIVE StripTags(_)
StripTags(s) ==
    LET lt == Find(s, "<", 1)
        gt == IF lt = 0 THEN 0 ELSE Find(s, ">", lt + 1)
    IN  IF lt = 0 THEN s
        ELSE IF gt >= lt + 2
             THEN SubSeq(s, 1, lt - 1) \o StripTags(From(s, gt + 1))
             ELSE SubSeq(s, 1, lt) \o StripTags(From(s, lt + 1))

\* the three re.sub calls that unescape entities, in the order of the source
Unescape(s) == Replace(Replace(Replace(s, "&amp;", "&"), "&lt;", "<"), "&gt;", ">")

\* Clean with the substitution of &amp; left out
CleanSkipAmp(s) == Replace(Replace(StripTags(s), "&lt;", "<"), "&gt;", ">")

\* the cleaning applied to one stripped text line
Clean(s) == Unescape(StripTags(s))

(***************************************************************************)
(* The transcoders.                                                        *)
(***************************************************************************)
\* the header / metadata test of lines 231 and 265, on a stripped line
IsHeader(line) ==
    StartsWith(line, "WEBVTT") \/ StartsWith(line, "Kind:") \/ StartsWith(line, "Language:")

\* the guard of the inner while loops (lines 239 and 279): lines[i] continues a cue
IsCueText(lines, i) ==
    i <= Len(lines) /\ Strip(lines[i]) # "" /\ ~Contains(lines[i], "-->")

\* the index at which the inner while loop started at i stops
RECURSIVE CueEnd(_, _)
CueEnd(lines, i) == IF IsCueText(lines, i) THEN CueEnd(lines, i + 1) ELSE i

\* the body of the inner while loop over lines[i..j-1]: the cleaned text lines
\* that are not empty, in order
RECURSIVE CueLines(_, _, _)
CueLines(lines, i, j) ==
    IF i >= j THEN <<>>
    ELSE LET t == Clean(Strip(lines[i]))
         IN  (IF t # "" THEN <<t>> ELSE <<>>) \o CueLines(lines, i + 1, j)

\* the outer while loop without the test that skips header and metadata lines
RECURSIVE ParseLoopNoSkip(_, _, _)
ParseLoopNoSkip(lines, i, acc) ==
    IF i > Len(lines) THEN acc
    ELSE IF Contains(Strip(lines[i]), "-->")
         THEN LET j == CueEnd(lines, i + 1)
              IN  ParseLoopNoSkip(lines, j, acc \o CueLines(lines, i + 1, j))
         ELSE ParseLoopNoSkip(lines, i + 1, acc)

\* the outer while loop of parse_vtt_content from index i with transcript_lines = acc
RECURSIVE ParseLoop(_, _, _)
ParseLoop(lines, i, acc) ==
    IF i > Len(lines) THEN acc
    ELSE LET line == Strip(lines[i])
         IN  IF IsHeader(line) THEN ParseLoop(lines, i + 1, acc)
             ELSE IF Contains(line, "-->")
                  THEN LET j == CueEnd(lines, i + 1)
                       IN  ParseLoop(lines, j, acc \o CueLines(lines, i + 1, j))
                  ELSE ParseLoop(lines, i + 1, acc)

\* parse_vtt_content joining the lines with nothing between them
parse_vtt_content_nosep(content) == Join(ParseLoop(Split(content, "\n"), 1, <<>>), "")

parse_vtt_content(content) == Join(ParseLoop(Split(content, "\n"), 1, <<>>), " ")

\* one element of srt_lines, with the statement that appended it
SrtLine(kind, s) == [kind |-> kind, s |-> s]

\* the outer while loop of convert_to_srt from index i with srt_lines = acc and
\* subtitle_count = count; the number and the timestamp are appended before the
\* text is collected (lines 273-274), the counter moves only when text survived
RECURSIVE SrtLoop(_, _, _, _)
SrtLoop(lines, i, acc, count) ==
    IF i > Len(lines) THEN acc
    ELSE LET line == Strip(lines[i])
         IN  IF IsHeader(line) THEN SrtLoop(lines, i + 1, acc, count)
             ELSE IF Contains(line, "-->")
                  THEN LET timestamp_line == Replace(line, ".", ",")
                           j == CueEnd(lines, i + 1)
                           subtitle_text == CueLines(lines, i + 1, j)
                           head == acc \o <<SrtLine("number", Str(count)),
                                            SrtLine("timestamp", timestamp_line)>>
                       IN  IF subtitle_text # <<>>
                           THEN SrtLoop(lines, j,
                                        head \o [k \in 1..Len(subtitle_text) |->
                                                    SrtLine("text", subtitle_text[k])]
                                             \o <<SrtLine("blank", "")>>,
                                        count + 1)
                           ELSE SrtLoop(lines, j, head, count)
                  ELSE SrtLoop(lines, i + 1, acc, count)

\* get_clean_vtt without the test for the header
get_clean_vtt_always(content) == "WEBVTT\n\n" \o content

\* get_clean_vtt (lines 299-303)
get_clean_vtt(content) ==
    IF ~StartsWith(content, "WEBVTT") THEN "WEBVTT\n\n" \o content ELSE content

\* srt_lines when convert_to_srt leaves its loop
SrtLines(content) == SrtLoop(Split(content, "\n"), 1, <<>>, 1)

\* the strings of a sequence of srt lines
SrtStrings(ls) == [k \in 1..Len(ls) |-> ls[k].s]

convert_to_srt(content) == Join(SrtStrings(SrtLines(content)), "\n")

(***************************************************************************)
(* Inputs of the transcoders and of the cleaning.                          *)
(***************************************************************************)
\* the lines a markup is made of: blank lines, a header, cue boundaries, text
\* with tags and entities, text that cleans to nothing, and a boundary that
\* begins with a metadata prefix
LinePool ==
    { "", " ", "WEBVTT", "0.1 --> 0.2", "Kind: a --> b",
      "Hello &amp; welcome", "<b>Hi</b>", "<c>" }

Markups ==
    { Join(ls, "\n") : ls \in UNION { [1..n -> LinePool] : n \in 0..MaxLines } }

\* the pieces a text line is made of
TextPieces == { "a", "<", ">", "<b>", "&", "&amp;", "&lt;", "&gt;", "amp;", "lt;" }

TextLines ==
    { Join(ps, "") : ps \in UNION { [1..n -> TextPieces] : n \in 1..MaxPieces } }

(***************************************************************************)
(* Specification of the transcoders: a markup is drawn, then rendered.     *)
(***************************************************************************)
CleanIdle == text = "" /\ cleaned = <<>>

NoResponse ==
    [status |-> 0, detail |-> "", video_id |-> "", language |-> "", content |-> "",
     available_languages |-> <<>>, media_type |-> "", filename |-> "",
     content_disposition |-> ""]

ReqIdle ==
    /\ route = "" /\ url = "" /\ lang = "" /\ format = "" /\ pc = "idle"
    /\ video_id = "" /\ max_retries = 0 /\ attempt = 0 /\ delay = 0
    /\ calls = [list |-> <<>>, fetch |-> <<>>]
    /\ sleeps = [list |-> <<>>, fetch |-> <<>>]
    /\ available_languages = <<>> /\ selected_language = ""
    /\ response = NoResponse

VttIdle == vtt_content = "" /\ vstage = "idle" /\ rendered = "" /\ srt_lines = <<>>

NoInfo == [subtitles |-> <<>>, automatic_captions |-> <<>>]

NoOutcome == [kind |-> "none", value |-> [cls |-> "", status |-> 0, msg |-> ""]]

DownloadIdle == call = <<>> /\ fs = <<>>

LoopIdle == tasks = <<>> /\ running = ""

MoreIdle ==
    /\ DownloadIdle
    /\ actual_language = ""
    /\ LoopIdle

ExtraIdle ==
    /\ info = NoInfo
    /\ urls = <<>> /\ results = <<>> /\ successful = 0 /\ failed = 0
    /\ base = 0 /\ outcome = NoOutcome
    /\ MoreIdle

InitVtt ==
    /\ vtt_content \in Markups
    /\ vstage = "input"
    /\ rendered = ""
    /\ srt_lines = <<>>
    /\ CleanIdle
    /\ ReqIdle
    /\ ExtraIdle

RenderTxt ==
    /\ vstage = "input"
    /\ vstage' = "txt"
    /\ rendered' = parse_vtt_content(vtt_content)
    /\ UNCHANGED <<vtt_content, srt_lines, cleanVars, reqVars, extraVars>>

RenderSrt ==
    /\ vstage = "input"
    /\ vstage' = "srt"
    /\ srt_lines' = SrtLines(vtt_content)
    /\ rendered' = convert_to_srt(vtt_content)
    /\ UNCHANGED <<vtt_content, cleanVars, reqVars, extraVars>>

NextVtt == RenderTxt \/ RenderSrt

SpecVtt == InitVtt /\ [][NextVtt]_vars

(***************************************************************************)
(* Specification of the cleaning: a text line is drawn and cleaned, and    *)
(* the cleaned line is cleaned again.                                      *)
(***************************************************************************)
InitClean ==
    /\ text \in TextLines
    /\ cleaned = <<>>
    /\ VttIdle
    /\ ReqIdle
    /\ ExtraIdle

CleanPass ==
    /\ Len(cleaned) < 2
    /\ cleaned' = Append(cleaned, Clean(IF cleaned = <<>> THEN text ELSE cleaned[Len(cleaned)]))
    /\ UNCHANGED <<vttVars, text, reqVars, extraVars>>

NextClean == CleanPass

SpecClean == InitClean /\ [][NextClean]_vars

(***************************************************************************)
(* extract_video_id (lines 82-94).                                         *)
(***************************************************************************)
\* the class without '#'
IdCharNoHash(c) == c \notin {"&", "\n", "?"}

\* the class [^&\n?#]
IdChar(c) == c \notin {"&", "\n", "?", "#"}

\* the longest run of [^&\n?#] characters of u that starts at position i
RECURSIVE IdRun(_, _)
IdRun(u, i) ==
    IF i <= Len(u) /\ IdChar(Ch(u, i)) THEN Ch(u, i) \o IdRun(u, i + 1) ELSE ""

\* re.search(pattern, u) from position i for a pattern (?:m1|m2|...)([^&\n?#]+):
\* group(1) of the leftmost match, "" when there is none
RECURSIVE Search(_, _, _)
Search(u, markers, i) ==
    IF i > Len(u) THEN ""
    ELSE LET hits == { k \in 1..Len(markers) :
                         MatchAt(u, i, markers[k]) /\ IdRun(u, i + Len(markers[k])) # "" }
         IN  IF hits # {}
             THEN LET k == CHOOSE h \in hits : \A g \in hits : h <= g
                  IN  IdRun(u, i + Len(markers[k]))
             ELSE Search(u, markers, i + 1)

\* a list of four patterns, one for each shape
PatternsFourShapes ==
    << <<"youtube.com/watch?v=">>, <<"youtu.be/">>, <<"youtube.com/embed/">>, <<"youtube.com/v/">> >>

\* the list `patterns`, each pattern by the literal prefixes of its alternatives
Patterns ==
    << <<"youtube.com/watch?v=", "youtu.be/">>, <<"youtube.com/embed/">>, <<"youtube.com/v/">> >>

\* the for loop over patterns from the n-th on; "" stands for the ValueError
RECURSIVE FirstPattern(_, _)
FirstPattern(u, n) ==
    IF n > Len(Patterns) THEN ""
    ELSE IF Search(u, Patterns[n], 1) # "" THEN Search(u, Patterns[n], 1)
    ELSE FirstPattern(u, n + 1)

extract_video_id(u) == FirstPattern(u, 1)

(***************************************************************************)
(* Exceptions and the except clauses.                                      *)
(***************************************************************************)
Exc(cls, msg) == [cls |-> cls, status |-> 0, msg |-> msg]

HTTPException(status, detail) == [cls |-> "HTTPException", status |-> status, msg |-> detail]

\* str(e)
ExcStr(e) == IF e.cls = "HTTPException" THEN Str(e.status) \o ": " \o e.msg ELSE e.msg

\* isinstance(e, one of classes); BrokenPipeError is a subclass of ConnectionError
IsInstance(e, classes) ==
    \/ e.cls \in classes
    \/ e.cls = "BrokenPipeError" /\ "ConnectionError" \in classes
    \/ "Exception" \in classes

\* the failure categories of the external client
TransientNetwork == {"BrokenPipeError", "ConnectionError"}
VideoUnavailable == {"DownloadError"}
Unexpected == {"KeyError"}
ClientFailures == TransientNetwork \cup VideoUnavailable \cup Unexpected

\* a retry clause that catches every exception
RetryCatchesAll(e) == IsInstance(e, {"Exception"})

\* the except clause of line 101 catches e
RetryCatches(e) == IsInstance(e, {"BrokenPipeError", "ConnectionError", "DownloadError"})

\* get_video_info's except clauses (lines 145-153)
GetVideoInfoCatch(e) ==
    IF IsInstance(e, {"DownloadError"})
    THEN HTTPException(404, "Video not accessible: " \o ExcStr(e))
    ELSE IF IsInstance(e, {"BrokenPipeError", "ConnectionError"})
    THEN HTTPException(503, "Network error, please try again: " \o ExcStr(e))
    ELSE HTTPException(500, "Unexpected error: " \o ExcStr(e))

\* download_subtitles' except clauses (lines 211-219)
DownloadSubtitlesCatch(e) ==
    IF IsInstance(e, {"DownloadError"})
    THEN HTTPException(404, "Failed to download subtitles: " \o ExcStr(e))
    ELSE IF IsInstance(e, {"BrokenPipeError", "ConnectionError"})
    THEN HTTPException(503, "Network error, please try again: " \o ExcStr(e))
    ELSE HTTPException(500, "Unexpected error: " \o ExcStr(e))

\* the route's except clause around get_video_info with a wrong status
RouteListCatch503(e) == HTTPException(503, "Video not found or unavailable: " \o ExcStr(e))

\* the route's except clause around get_video_info (lines 340-342, 422-424)
RouteListCatch(e) == HTTPException(404, "Video not found or unavailable: " \o ExcStr(e))

\* the route's except clause around download_subtitles (lines 393-395, 472-474)
RouteFetchCatch(r, e) ==
    HTTPException(503, (IF r = "download" THEN "Unable to process transcript: "
                                           ELSE "Unable to fetch transcript: ") \o ExcStr(e))

\* the route's outer except clauses without the one for ValueError
RouteOuterCatchNoValueError(r, e) ==
    IF IsInstance(e, {"HTTPException"}) THEN e
    ELSE HTTPException(500, (IF r = "download" THEN "Error processing download: "
                                                ELSE "Error fetching transcript: ") \o ExcStr(e))

\* the route's outer except clauses (lines 397-403, 476-482)
RouteOuterCatch(r, e) ==
    IF IsInstance(e, {"ValueError"}) THEN HTTPException(400, ExcStr(e))
    ELSE IF IsInstance(e, {"HTTPException"}) THEN e
    ELSE HTTPException(500, (IF r = "download" THEN "Error processing download: "
                                                ELSE "Error fetching transcript: ") \o ExcStr(e))

\* an except clause that lets an HTTPException through
LanguagesCatchReraise(e) ==
    IF IsInstance(e, {"HTTPException"}) THEN e
    ELSE HTTPException(500, "Error fetching available languages: " \o ExcStr(e))

\* get_available_languages' except clause (lines 512-514)
LanguagesCatch(e) == HTTPException(500, "Error fetching available languages: " \o ExcStr(e))

\* the response FastAPI makes of an HTTPException that leaves the route
ErrorResponse(e) == [NoResponse EXCEPT !.status = e.status, !.detail = e.msg]

(***************************************************************************)
(* Offered languages and selection.                                        *)
(***************************************************************************)
\* the two for loops without the test `lang_code not in available_languages`
OfferedLanguagesNoTest(i) == i.subtitles \o i.automatic_captions

\* the two for loops over subtitles and automatic_captions (lines 345-353, 427-440,
\* 549-553)
OfferedLanguages(i) ==
    i.subtitles
        \o SelectSeq(i.automatic_captions,
                     LAMBDA c : \A k \in 1..Len(i.subtitles) : i.subtitles[k] # c)

InSeq(x, seq) == \E k \in 1..Len(seq) : seq[k] = x

\* the selection with the test for 'en' made before the test for the requested code
SelectLanguageEnFirst(requested, available) ==
    IF InSeq("en", available) THEN "en"
    ELSE IF InSeq(requested, available) THEN requested
    ELSE available[1]

\* the requested code handed on whatever is offered
SelectLanguageRequested(requested, available) == requested

\* lines 359-365, 448-457 and 563-570
SelectLanguage(requested, available) ==
    IF InSeq(requested, available) THEN requested
    ELSE IF InSeq("en", available) THEN "en"
    ELSE available[1]

(***************************************************************************)
(* download_operation after ydl.download returned (lines 186-207).         *)
(***************************************************************************)
\* the list comprehension over os.listdir(temp_dir) (lines 187-190)
SubtitleFiles(files, id) ==
    SelectSeq(files, LAMBDA f : StartsWith(f.name, id) /\ EndsWith(f.name, ".vtt"))

\* re.search(rf'{video_id}\.([^.]+)\.vtt', name) from position i for an identifier
\* without regular-expression metacharacters: group(1), "" when there is no match
RECURSIVE LangMatch(_, _, _)
LangMatch(name, id, i) ==
    IF i > Len(name) THEN ""
    ELSE LET start == i + Len(id) + 1
             dot == Find(name, ".", start)
         IN  IF MatchAt(name, i, id \o ".") /\ dot > start /\ MatchAt(name, dot, ".vtt")
             THEN SubSeq(name, start, dot - 1)
             ELSE LangMatch(name, id, i + 1)

\* line 201 without the match on the file name
ActualLanguageEcho(name, id, language) == IF language # "" THEN language ELSE "unknown"

\* line 201
ActualLanguage(name, id, language) ==
    IF LangMatch(name, id, 1) # "" THEN LangMatch(name, id, 1)
    ELSE IF language # "" THEN language
    ELSE "unknown"


(***************************************************************************)
(* Inputs of a request and answers of the external client.                 *)
(***************************************************************************)
DefaultMaxRetries == 3
DefaultDelay == 1

Urls == { "", "invalid_url", "https://www.youtube.com/watch?v=abc&t=1" }

RequestedLanguages == {"en", "es", "fr"}

Formats == {"txt", "srt", "vtt"}

TrackLanguages == {"en", "es"}

\* the sequences without repetition of at most n elements of S
SeqsNoDup(S, n) ==
    { q \in UNION { [1..m -> S] : m \in 0..n } :
        \A i, j \in 1..Len(q) : i # j => q[i] # q[j] }

\* what extract_info returns: the keys of info['subtitles'] and of
\* info['automatic_captions'], in the order of the dictionaries
Infos ==
    [subtitles : SeqsNoDup(TrackLanguages, Cardinality(TrackLanguages)),
     automatic_captions : SeqsNoDup(TrackLanguages, Cardinality(TrackLanguages))]

\* the caption payload the platform delivers in the file called name: with the
\* header when the name carries a language code, without it otherwise
PayloadOf(name, id) ==
    IF name = id \o ".vtt" THEN "0.1 --> 0.2\n<b>Hi</b>\n"
    ELSE IF name = id \o ".en-orig.vtt" THEN "WEBVTT\n\n0.1 --> 0.2\nHi\n"
    ELSE "WEBVTT\n\n0.1 --> 0.2\na &amp; b\n"

\* the names of the files ydl.download may leave in temp_dir for (id, language)
FileNames(id, language) ==
    { id \o "." \o language \o ".vtt", id \o ".en-orig.vtt", id \o ".vtt",
      id \o ".live_chat.json" }

\* os.listdir(temp_dir) after ydl.download, in the order listdir gives
Listings(id, language) ==
    { [k \in 1..Len(names) |-> [name |-> names[k], content |-> PayloadOf(names[k], id)]] :
      names \in SeqsNoDup(FileNames(id, language), MaxFiles) }

\* the message of the failure of the n-th invocation
FailureMessage(cls, n) == cls \o " #" \o Str(n)

Returned == Exc("ok", "")

(***************************************************************************)
(* One request: GET /transcript (lines 405-482) or GET /transcript/download *)
(* (lines 324-403).  A step ends where the route calls the external client. *)
(***************************************************************************)
Init ==
    /\ route \in {"transcript", "download"}
    /\ url \in Urls
    /\ lang \in RequestedLanguages
    /\ format \in (IF route = "download" THEN Formats ELSE {""})
    /\ pc = "start"
    /\ video_id = ""
    /\ max_retries = DefaultMaxRetries
    /\ attempt = 0
    /\ delay = 0
    /\ calls = [list |-> <<>>, fetch |-> <<>>]
    /\ sleeps = [list |-> <<>>, fetch |-> <<>>]
    /\ available_languages = <<>>
    /\ selected_language = ""
    /\ response = NoResponse
    /\ VttIdle
    /\ CleanIdle
    /\ ExtraIdle

\* the route up to the call of get_video_info (lines 335-339, 414-420)
Extract ==
    /\ pc = "start"
    /\ IF extract_video_id(url) = ""
       THEN /\ response' = ErrorResponse(RouteOuterCatch(route, Exc("ValueError", "Invalid YouTube URL")))
            /\ pc' = "done"
            /\ UNCHANGED <<video_id, attempt, delay>>
       ELSE /\ video_id' = extract_video_id(url)
            /\ pc' = "list"
            /\ attempt' = 0
            /\ delay' = DefaultDelay
            /\ UNCHANGED response
    /\ UNCHANGED <<route, url, lang, format, max_retries, calls, sleeps,
                   available_languages, selected_language, vttVars, cleanVars, extraVars>>

\* the test of line 102 made one attempt too late
IsLastAttemptLate(a, n) == a = n

\* the test of line 102
IsLastAttempt(a, n) == a = n - 1

\* the exception the route answers with when e leaves retry_yt_dlp_operation
Surfaced(op, e) ==
    IF route = "languages" THEN LanguagesCatch(GetVideoInfoCatch(e))
    ELSE IF op = "list" THEN RouteOuterCatch(route, RouteListCatch(GetVideoInfoCatch(e)))
    ELSE RouteOuterCatch(route, RouteFetchCatch(route, DownloadSubtitlesCatch(e)))

\* operation_func raised e inside retry_yt_dlp_operation (lines 101-109): sleep
\* and go round the loop again, or let e out through the except clauses above it
OperationRaised(op, e) ==
    /\ calls' = [calls EXCEPT ![op] = Append(@, e)]
    /\ IF RetryCatches(e) /\ ~IsLastAttempt(attempt, max_retries)
       THEN /\ sleeps' = [sleeps EXCEPT ![op] =
                             Append(@, [after |-> Len(calls[op]) + 1, delay |-> delay])]
            /\ delay' = delay * 2
            /\ attempt' = attempt + 1
            /\ UNCHANGED <<pc, response>>
       ELSE /\ response' = ErrorResponse(Surfaced(op, e))
            /\ pc' = "done"
            /\ UNCHANGED <<sleeps, delay, attempt>>
    /\ UNCHANGED <<route, url, lang, format, video_id, max_retries,
                   available_languages, selected_language, vttVars, cleanVars, extraVars>>

\* ydl.extract_info raises (line 139)
ListRaises ==
    /\ pc = "list"
    /\ \E cls \in ClientFailures :
          OperationRaised("list", Exc(cls, FailureMessage(cls, Len(calls.list) + 1)))

\* ydl.extract_info returns info; the route goes on to the call of
\* download_subtitles, or answers 404 when no language is offered
ListReturns ==
    /\ pc = "list"
    /\ \E i \in Infos :
          /\ calls' = [calls EXCEPT !.list = Append(@, Returned)]
          /\ available_languages' = OfferedLanguages(i)
          /\ IF OfferedLanguages(i) = <<>>
             THEN /\ response' = ErrorResponse(RouteOuterCatch(route,
                                     HTTPException(404, "No subtitles available for this video")))
                  /\ pc' = "done"
                  /\ UNCHANGED <<selected_language, attempt, delay>>
             ELSE /\ selected_language' = SelectLanguage(lang, OfferedLanguages(i))
                  /\ pc' = "fetch"
                  /\ attempt' = 0
                  /\ delay' = DefaultDelay
                  /\ UNCHANGED response
    /\ UNCHANGED <<route, url, lang, format, video_id, max_retries, sleeps,
                   vttVars, cleanVars, extraVars>>

\* ydl.download raises (line 184)
FetchRaises ==
    /\ pc = "fetch"
    /\ \E cls \in ClientFailures :
          OperationRaised("fetch", Exc(cls, FailureMessage(cls, Len(calls.fetch) + 1)))

\* the download route with the selected language in the file name
RenderedSelected(content, language) ==
    IF route = "transcript"
    THEN [NoResponse EXCEPT !.status = 200, !.video_id = video_id, !.language = language,
                            !.content = parse_vtt_content(content),
                            !.available_languages = available_languages]
    ELSE [NoResponse EXCEPT
            !.status = 200,
            !.content = IF format = "txt" THEN parse_vtt_content(content)
                        ELSE IF format = "srt" THEN convert_to_srt(content)
                        ELSE get_clean_vtt(content),
            !.media_type = IF format = "txt" THEN "text/plain"
                           ELSE IF format = "srt" THEN "text/srt" ELSE "text/vtt",
            !.filename = video_id \o "_" \o selected_language \o "." \o format,
            !.content_disposition =
                "attachment; filename=" \o video_id \o "_" \o selected_language \o "." \o format]

\* the body of the route after download_subtitles returned (content, language):
\* lines 463-470 for /transcript, lines 367-389 for /transcript/download
Rendered(content, language) ==
    IF route = "transcript"
    THEN [NoResponse EXCEPT !.status = 200, !.video_id = video_id, !.language = language,
                            !.content = parse_vtt_content(content),
                            !.available_languages = available_languages]
    ELSE [NoResponse EXCEPT
            !.status = 200,
            !.content = IF format = "txt" THEN parse_vtt_content(content)
                        ELSE IF format = "srt" THEN convert_to_srt(content)
                        ELSE get_clean_vtt(content),
            !.media_type = IF format = "txt" THEN "text/plain"
                           ELSE IF format = "srt" THEN "text/srt" ELSE "text/vtt",
            !.filename = video_id \o "_" \o language \o "." \o format,
            !.content_disposition =
                "attachment; filename=" \o video_id \o "_" \o language \o "." \o format]

\* ydl.download returns and leaves `files` in temp_dir (lines 186-207): with no
\* caption file download_operation raises its HTTPException(404), with one the
\* route renders the first
FetchWrites ==
    /\ pc = "fetch"
    /\ \E files \in Listings(video_id, selected_language) :
          LET subtitle_files == SubtitleFiles(files, video_id)
          IN  IF subtitle_files = <<>>
              THEN OperationRaised("fetch", HTTPException(404, "No subtitles found for this video"))
              ELSE /\ calls' = [calls EXCEPT !.fetch = Append(@, Returned)]
                   /\ vtt_content' = subtitle_files[1].content
                   /\ actual_language' = ActualLanguage(subtitle_files[1].name, video_id,
                                                        selected_language)
                   /\ response' = Rendered(vtt_content', actual_language')
                   /\ pc' = "done"
                   /\ UNCHANGED <<route, url, lang, format, video_id, max_retries, attempt,
                                  delay, sleeps, available_languages, selected_language,
                                  vstage, rendered, srt_lines, cleanVars, langVars,
                                  batchVars, retryVars, downloadVars, loopVars>>

Next == Extract \/ ListRaises \/ ListReturns \/ FetchRaises \/ FetchWrites

Spec == Init /\ [][Next]_vars

\* a request for English
InitLive == Init /\ lang = "en"

\* that request with every step that can be taken eventually taken: each call of
\* the external client returns or raises
SpecLive == InitLive /\ [][Next]_vars /\ WF_vars(Next)

(***************************************************************************)
(* The offered list and the selection, as every route computes them from   *)
(* the listing (lines 344-365, 426-457, 544-570): a listing and a          *)
(* requested code are drawn, the list is built, a language is selected.    *)
(***************************************************************************)
Routes == {"transcript", "download", "batch"}

LangTracks == {"en", "es", "de"}

\* the listings over LangTracks
LangInfos ==
    [subtitles : SeqsNoDup(LangTracks, Cardinality(LangTracks)),
     automatic_captions : SeqsNoDup(LangTracks, Cardinality(LangTracks))]

InitLang ==
    /\ route \in Routes
    /\ lang \in RequestedLanguages
    /\ info \in LangInfos
    /\ pc = "offer"
    /\ available_languages = <<>>
    /\ selected_language = ""
    /\ url = "" /\ format = "" /\ video_id = ""
    /\ max_retries = 0 /\ attempt = 0 /\ delay = 0
    /\ calls = [list |-> <<>>, fetch |-> <<>>]
    /\ sleeps = [list |-> <<>>, fetch |-> <<>>]
    /\ response = NoResponse
    /\ urls = <<>> /\ results = <<>> /\ successful = 0 /\ failed = 0
    /\ base = 0 /\ outcome = NoOutcome
    /\ VttIdle
    /\ CleanIdle
    /\ MoreIdle

\* the two for loops and the test `if not available_languages`
Offer ==
    /\ pc = "offer"
    /\ available_languages' = OfferedLanguages(info)
    /\ pc' = IF OfferedLanguages(info) = <<>> THEN "done" ELSE "select"
    /\ UNCHANGED <<route, url, lang, format, video_id, max_retries, attempt, delay, calls,
                   sleeps, selected_language, response, vttVars, cleanVars, extraVars>>

\* the if / elif / else that sets selected_language
Select ==
    /\ pc = "select"
    /\ selected_language' = SelectLanguage(lang, available_languages)
    /\ pc' = "done"
    /\ UNCHANGED <<route, url, lang, format, video_id, max_retries, attempt, delay, calls,
                   sleeps, available_languages, response, vttVars, cleanVars, extraVars>>

NextLang == Offer \/ Select

SpecLang == InitLang /\ [][NextLang]_vars

(***************************************************************************)
(* One request to POST /transcripts/batch (lines 516-605).  A step ends    *)
(* where the loop body calls get_video_info or download_subtitles, whose   *)
(* retries leave nothing in the state of the batch.                        *)
(***************************************************************************)
MaxUrls == 2        \* urls of a batch request

\* Optional[...] fields of BatchVideoResult
None == <<>>
Some(x) == <<x>>

BatchUrls == { "invalid_url", "https://youtu.be/abc" }

\* request.urls
UrlLists == UNION { [1..n -> BatchUrls] : n \in 0..MaxUrls }

\* what extract_info returns for a video of a batch
BatchInfos ==
    { NoInfo,
      [subtitles |-> <<"es">>, automatic_captions |-> <<"en", "es">>],
      [subtitles |-> <<>>, automatic_captions |-> <<"de">>] }

\* the exceptions that leave get_video_info: the last failure of the client,
\* through the except clauses of lines 145-153
GetVideoInfoRaises ==
    { GetVideoInfoCatch(Exc(cls, FailureMessage(cls, IF cls \in Unexpected THEN 1
                                                      ELSE DefaultMaxRetries))) :
        cls \in ClientFailures }

\* the exceptions that leave download_subtitles (lines 211-219)
DownloadSubtitlesRaises ==
    { DownloadSubtitlesCatch(Exc(cls, FailureMessage(cls, IF cls \in Unexpected THEN 1
                                                           ELSE DefaultMaxRetries))) :
        cls \in ClientFailures }
    \cup { DownloadSubtitlesCatch(HTTPException(404, "No subtitles found for this video")) }

\* BatchVideoResult(url=url, success=False) (line 527)
BatchVideoResult(u) ==
    [url |-> u, video_id |-> None, success |-> FALSE, transcript |-> None,
     language |-> None, available_languages |-> None, error |-> None]

\* the result of an item whose url is invalid (lines 591-593)
InvalidResult(u, e) ==
    [BatchVideoResult(u) EXCEPT !.error = Some("Invalid YouTube URL: " \o ExcStr(e))]

\* the result of a failed listing with no error recorded
ListFailedResultNoError(u, id, e) == [BatchVideoResult(u) EXCEPT !.video_id = Some(id)]

\* the result of an item whose listing failed (lines 538-542)
ListFailedResult(u, id, e) ==
    [BatchVideoResult(u) EXCEPT
        !.video_id = Some(id),
        !.error = Some("Video not found or unavailable: " \o ExcStr(e))]

\* the result of an item without offered language, the empty list left out
NoLanguageResultNoList(u, id, available) ==
    [BatchVideoResult(u) EXCEPT
        !.video_id = Some(id),
        !.error = Some("No subtitles available for this video")]

\* the result of an item without offered language (lines 555-561)
NoLanguageResult(u, id, available) ==
    [BatchVideoResult(u) EXCEPT
        !.video_id = Some(id),
        !.available_languages = Some(available),
        !.error = Some("No subtitles available for this video")]

\* the result of a failed fetch with the identifier left out
FetchFailedResultNoId(u, id, available, e) ==
    [BatchVideoResult(u) EXCEPT
        !.available_languages = Some(available),
        !.error = Some("Failed to download transcript: " \o ExcStr(e))]

\* the result of an item whose fetch failed (lines 586-588)
FetchFailedResult(u, id, available, e) ==
    [BatchVideoResult(u) EXCEPT
        !.video_id = Some(id),
        !.available_languages = Some(available),
        !.error = Some("Failed to download transcript: " \o ExcStr(e))]

\* the result of an item that succeeded (lines 573-582)
SuccessResult(u, id, available, content, language) ==
    [BatchVideoResult(u) EXCEPT
        !.video_id = Some(id),
        !.available_languages = Some(available),
        !.success = TRUE,
        !.transcript = Some(parse_vtt_content(content)),
        !.language = Some(language)]

\* results.append(result) without the count of a failure
RecordUncounted(result) ==
    /\ results' = Append(results, result)
    /\ successful' = successful + (IF result.success THEN 1 ELSE 0)
    /\ failed' = failed
    /\ pc' = "item"

\* results.append(result) with the `successful += 1` or `failed += 1` of its path
Record(result) ==
    /\ results' = Append(results, result)
    /\ successful' = successful + (IF result.success THEN 1 ELSE 0)
    /\ failed' = failed + (IF result.success THEN 0 ELSE 1)
    /\ pc' = "item"

InitBatch ==
    /\ route = "batch"
    /\ urls \in UrlLists
    /\ lang \in RequestedLanguages
    /\ pc = "item"
    /\ results = <<>> /\ successful = 0 /\ failed = 0
    /\ url = "" /\ format = "" /\ video_id = ""
    /\ info = NoInfo
    /\ available_languages = <<>>
    /\ selected_language = ""
    /\ max_retries = 0 /\ attempt = 0 /\ delay = 0
    /\ calls = [list |-> <<>>, fetch |-> <<>>]
    /\ sleeps = [list |-> <<>>, fetch |-> <<>>]
    /\ response = NoResponse
    /\ base = 0 /\ outcome = NoOutcome
    /\ VttIdle
    /\ CleanIdle
    /\ MoreIdle

\* the head of the for loop and extract_video_id (lines 526-531, 591-593)
BatchExtract ==
    /\ pc = "item"
    /\ Len(results) < Len(urls)
    /\ LET u == urls[Len(results) + 1]
       IN  /\ url' = u
           /\ info' = NoInfo
           /\ available_languages' = <<>>
           /\ selected_language' = ""
           /\ IF extract_video_id(u) = ""
              THEN /\ Record(InvalidResult(u, Exc("ValueError", "Invalid YouTube URL")))
                   /\ video_id' = ""
              ELSE /\ video_id' = extract_video_id(u)
                   /\ pc' = "list"
                   /\ UNCHANGED <<results, successful, failed>>
    /\ UNCHANGED <<route, lang, format, max_retries, attempt, delay, calls, sleeps,
                   response, urls, retryVars, vttVars, cleanVars, moreVars>>

\* get_video_info raises (lines 535-542)
BatchListRaises ==
    /\ pc = "list"
    /\ \E e \in GetVideoInfoRaises :
          /\ Record(ListFailedResult(url, video_id, e))
          /\ calls' = [calls EXCEPT !.list = Append(@, e)]
    /\ UNCHANGED <<route, url, lang, format, video_id, max_retries, attempt, delay,
                   sleeps, available_languages, selected_language, response,
                   info, urls, retryVars, vttVars, cleanVars, moreVars>>

\* get_video_info returns (lines 544-570)
BatchListReturns ==
    /\ pc = "list"
    /\ calls' = [calls EXCEPT !.list = Append(@, Returned)]
    /\ \E i \in BatchInfos :
          /\ info' = i
          /\ available_languages' = OfferedLanguages(i)
          /\ IF OfferedLanguages(i) = <<>>
             THEN /\ Record(NoLanguageResult(url, video_id, OfferedLanguages(i)))
                  /\ UNCHANGED selected_language
             ELSE /\ selected_language' = SelectLanguage(lang, OfferedLanguages(i))
                  /\ pc' = "fetch"
                  /\ UNCHANGED <<results, successful, failed>>
    /\ UNCHANGED <<route, url, lang, format, video_id, max_retries, attempt, delay,
                   sleeps, response, urls, retryVars, vttVars, cleanVars, moreVars>>

\* download_subtitles raises (lines 586-588)
BatchFetchRaises ==
    /\ pc = "fetch"
    /\ \E e \in DownloadSubtitlesRaises :
          /\ Record(FetchFailedResult(url, video_id, available_languages, e))
          /\ calls' = [calls EXCEPT !.fetch = Append(@, e)]
    /\ UNCHANGED <<route, url, lang, format, video_id, max_retries, attempt, delay,
                   sleeps, available_languages, selected_language, response,
                   info, urls, retryVars, vttVars, cleanVars, moreVars>>

\* download_subtitles returns the first caption file of the listing (lines 573-582)
BatchFetchReturns ==
    /\ pc = "fetch"
    /\ calls' = [calls EXCEPT !.fetch = Append(@, Returned)]
    /\ \E files \in Listings(video_id, selected_language) :
          LET subtitle_files == SubtitleFiles(files, video_id)
          IN  /\ subtitle_files # <<>>
              /\ Record(SuccessResult(url, video_id, available_languages,
                                      subtitle_files[1].content,
                                      ActualLanguage(subtitle_files[1].name, video_id,
                                                     selected_language)))
    /\ UNCHANGED <<route, url, lang, format, video_id, max_retries, attempt, delay,
                   sleeps, available_languages, selected_language, response,
                   info, urls, retryVars, vttVars, cleanVars, moreVars>>

\* the for loop is exhausted: return BatchResponse(...) (lines 598-605)
BatchReturn ==
    /\ pc = "item"
    /\ Len(results) = Len(urls)
    /\ response' = [status |-> 200, total_requested |-> Len(urls), successful |-> successful,
                    failed |-> failed, results |-> results]
    /\ pc' = "done"
    /\ UNCHANGED <<route, url, lang, format, video_id, max_retries, attempt, delay, calls,
                   sleeps, available_languages, selected_language, extraVars, vttVars,
                   cleanVars>>

NextBatch ==
    \/ BatchExtract \/ BatchListRaises \/ BatchListReturns
    \/ BatchFetchRaises \/ BatchFetchReturns \/ BatchReturn

SpecBatch == InitBatch /\ [][NextBatch]_vars

\* the batch with every step that can be taken eventually taken
SpecBatchLive == InitBatch /\ [][NextBatch]_vars /\ WF_vars(NextBatch)

(***************************************************************************)
(* One call of retry_yt_dlp_operation (lines 96-109) around either         *)
(* operation, for a maximum attempt count and a first delay drawn from a   *)
(* range; pc names the wrapped operation while the call is running.        *)
(***************************************************************************)
MaxAttempts == 4    \* largest max_retries of a call
MaxDelay == 2       \* largest first delay of a call

\* what an invocation of the wrapped operation returns
ReturnValues == {"r1", "r2"}

\* what the n-th invocation of the wrapped operation may raise
OperationFailures(op, n) ==
    { Exc(cls, FailureMessage(cls, n)) : cls \in ClientFailures }
    \cup (IF op = "fetch" THEN {HTTPException(404, "No subtitles found for this video")} ELSE {})

\* a delay that grows by one
NextDelayLinear(d) == d + 1

\* line 106
NextDelay(d) == d * 2

\* a synthetic failure in place of the last one
RaiseExhausted(e) == Exc("RuntimeError", "retries exhausted")

\* `raise e` of line 103: the exception caught at the last attempt
RaiseLast(e) == e

InitRetry ==
    /\ pc \in {"list", "fetch"}
    /\ max_retries \in 1..MaxAttempts
    /\ base \in 1..MaxDelay
    /\ delay = base
    /\ attempt = 0
    /\ calls = [list |-> <<>>, fetch |-> <<>>]
    /\ sleeps = [list |-> <<>>, fetch |-> <<>>]
    /\ outcome = NoOutcome
    /\ route = "" /\ url = "" /\ lang = "" /\ format = "" /\ video_id = ""
    /\ available_languages = <<>> /\ selected_language = ""
    /\ response = NoResponse
    /\ info = NoInfo
    /\ urls = <<>> /\ results = <<>> /\ successful = 0 /\ failed = 0
    /\ VttIdle
    /\ CleanIdle
    /\ MoreIdle

\* operation_func() raises (lines 101-109)
RetryRaises ==
    /\ pc \in {"list", "fetch"}
    /\ \E e \in OperationFailures(pc, Len(calls[pc]) + 1) :
          /\ calls' = [calls EXCEPT ![pc] = Append(@, e)]
          /\ IF RetryCatches(e)
             THEN IF IsLastAttempt(attempt, max_retries)
                  THEN /\ outcome' = [kind |-> "raised", value |-> RaiseLast(e)]
                       /\ pc' = "done"
                       /\ UNCHANGED <<sleeps, delay, attempt>>
                  ELSE /\ sleeps' = [sleeps EXCEPT ![pc] =
                                        Append(@, [after |-> Len(calls[pc]) + 1, delay |-> delay])]
                       /\ delay' = NextDelay(delay)
                       /\ attempt' = attempt + 1
                       /\ UNCHANGED <<pc, outcome>>
             ELSE /\ outcome' = [kind |-> "raised", value |-> e]
                  /\ pc' = "done"
                  /\ UNCHANGED <<sleeps, delay, attempt>>
    /\ UNCHANGED <<route, url, lang, format, video_id, max_retries, available_languages,
                   selected_language, response, langVars, batchVars, base, vttVars, cleanVars, moreVars>>

\* operation_func() returns (line 100)
RetryReturns ==
    /\ pc \in {"list", "fetch"}
    /\ \E v \in ReturnValues :
          /\ calls' = [calls EXCEPT ![pc] = Append(@, Exc("ok", v))]
          /\ outcome' = [kind |-> "returned", value |-> Exc("ok", v)]
    /\ pc' = "done"
    /\ UNCHANGED <<route, url, lang, format, video_id, max_retries, attempt, delay, sleeps,
                   available_languages, selected_language, response, langVars, batchVars,
                   base, vttVars, cleanVars, moreVars>>

NextRetry == RetryRaises \/ RetryReturns

SpecRetry == InitRetry /\ [][NextRetry]_vars

(***************************************************************************)
(* One call of extract_video_id (lines 82-94) on a url made of markers,    *)
(* identifier characters and the characters that end an identifier.        *)
(***************************************************************************)
MaxUrlPieces == 3   \* pieces of a url

UrlPieces ==
    { "youtube.com/watch?v=", "youtu.be/", "youtube.com/embed/", "youtube.com/v/",
      "example.com/embed/", "watch?v=", "a", "b", "&", "?", "#", "\n" }

UrlPool ==
    { Join(ps, "") : ps \in UNION { [1..n -> UrlPieces] : n \in 0..MaxUrlPieces } }

InitUrl ==
    /\ url \in UrlPool
    /\ pc = "extract"
    /\ video_id = ""
    /\ outcome = NoOutcome
    /\ route = "" /\ lang = "" /\ format = ""
    /\ max_retries = 0 /\ attempt = 0 /\ delay = 0
    /\ calls = [list |-> <<>>, fetch |-> <<>>]
    /\ sleeps = [list |-> <<>>, fetch |-> <<>>]
    /\ available_languages = <<>> /\ selected_language = ""
    /\ response = NoResponse
    /\ info = NoInfo
    /\ urls = <<>> /\ results = <<>> /\ successful = 0 /\ failed = 0
    /\ base = 0
    /\ VttIdle
    /\ CleanIdle
    /\ MoreIdle

\* extract_video_id(url) returns match.group(1) or raises ValueError
ExtractId ==
    /\ pc = "extract"
    /\ video_id' = extract_video_id(url)
    /\ outcome' = IF extract_video_id(url) = ""
                  THEN [kind |-> "raised", value |-> Exc("ValueError", "Invalid YouTube URL")]
                  ELSE [kind |-> "returned", value |-> Exc("ok", extract_video_id(url))]
    /\ pc' = "done"
    /\ UNCHANGED <<route, url, lang, format, max_retries, attempt, delay, calls, sleeps,
                   available_languages, selected_language, response, langVars, batchVars,
                   base, vttVars, cleanVars, moreVars>>

NextUrl == ExtractId

SpecUrl == InitUrl /\ [][NextUrl]_vars

(***************************************************************************)
(* The transcoders on markups whose boundaries are full timestamp ranges,  *)
(* with surrounding whitespace, cue settings and a carriage return.        *)
(***************************************************************************)
StampPool ==
    { "", "00:00:01.500 --> 00:00:03.000", " 1.5 --> 2.5 align:start\r",
      "v1.0 &lt;ok&gt;" }

StampMarkups ==
    { Join(ls, "\n") : ls \in UNION { [1..n -> StampPool] : n \in 0..MaxLines } }

InitStamp ==
    /\ vtt_content \in StampMarkups
    /\ vstage = "input"
    /\ rendered = ""
    /\ srt_lines = <<>>
    /\ CleanIdle
    /\ ReqIdle
    /\ ExtraIdle

SpecStamp == InitStamp /\ [][NextVtt]_vars

(***************************************************************************)
(* get_clean_vtt (lines 299-303) applied to a markup, and to its result.   *)
(***************************************************************************)
CleanVttPass ==
    /\ vstage \in {"input", "vtt"}
    /\ rendered' = get_clean_vtt(IF vstage = "input" THEN vtt_content ELSE rendered)
    /\ vstage' = IF vstage = "input" THEN "vtt" ELSE "vtt2"
    /\ UNCHANGED <<vtt_content, srt_lines, cleanVars, reqVars, extraVars>>

NextCleanVtt == CleanVttPass

SpecCleanVtt == InitVtt /\ [][NextCleanVtt]_vars

(***************************************************************************)
(* Calls of download_subtitles (lines 155-219), each inside its            *)
(* `with tempfile.TemporaryDirectory() as temp_dir`.  A step ends where    *)
(* the call reaches the file system or the external client, so the calls   *)
(* made for two requests may interleave.  The backoff between attempts     *)
(* changes nothing here and is left to the retry specification.            *)
(***************************************************************************)
Callers == {"c1", "c2"}

\* the names a temporary directory can get
DirNames == {"tmp1", "tmp2"}

DownloadIds == {"abc", "xyz"}

\* the parameter language, "" for None
DownloadLanguages == {"en", ""}

\* tempfile.mkdtemp (line 159): a name under which nothing exists
Mkdtemp(f) == { d \in DirNames : f[d] = None }

\* a with block that leaves its directory behind
CleanupNothing(f, d) == f

\* TemporaryDirectory.__exit__ (line 159): the directory and all in it are removed
Cleanup(f, d) == [f EXCEPT ![d] = None]

NoResult == [kind |-> "none", content |-> "", language |-> "", exc |-> Exc("", "")]

NoCall(id, language) ==
    [pc |-> "idle", video_id |-> id, language |-> language, temp_dir |-> "",
     attempt |-> 0, subtitle_file |-> "", result |-> NoResult]

\* the files ydl.download may leave: those of the requested language, of English
\* when none is requested (lines 179-180)
DownloadListings(id, language) == Listings(id, IF language = "" THEN "en" ELSE language)

\* the first call is made for any identifier and language, the second for one
InitDownload ==
    /\ call \in { [c \in Callers |-> IF c = "c1" THEN NoCall(id, l) ELSE NoCall("xyz", "en")] :
                      id \in DownloadIds, l \in DownloadLanguages }
    /\ fs = [d \in DirNames |-> None]
    /\ actual_language = ""
    /\ LoopIdle
    /\ info = NoInfo
    /\ urls = <<>> /\ results = <<>> /\ successful = 0 /\ failed = 0
    /\ base = 0 /\ outcome = NoOutcome
    /\ VttIdle
    /\ CleanIdle
    /\ ReqIdle

\* entry of the with block (line 159)
Enter(c) ==
    /\ call[c].pc = "idle"
    /\ \E d \in Mkdtemp(fs) :
          /\ fs' = [fs EXCEPT ![d] = Some(<<>>)]
          /\ call' = [call EXCEPT ![c].pc = "download", ![c].temp_dir = d]

\* exit of the with block, by return or by exception (lines 159, 209-219)
Leave(c, name, result) ==
    /\ fs' = Cleanup(fs, call[c].temp_dir)
    /\ call' = [call EXCEPT ![c].pc = "returned", ![c].subtitle_file = name,
                            ![c].result = result]

\* download_operation raised e (lines 101-109, 211-219)
DownloadOperationRaised(c, e) ==
    IF RetryCatches(e) /\ ~IsLastAttempt(call[c].attempt, DefaultMaxRetries)
    THEN /\ call' = [call EXCEPT ![c].pc = "download", ![c].attempt = @ + 1]
         /\ UNCHANGED fs
    ELSE Leave(c, "", [NoResult EXCEPT !.kind = "raised", !.exc = DownloadSubtitlesCatch(e)])

\* ydl.download raises (line 184)
DownloadRaises(c) ==
    /\ call[c].pc = "download"
    /\ \E cls \in ClientFailures \cup Unexpected :
          DownloadOperationRaised(c, Exc(cls, FailureMessage(cls, call[c].attempt + 1)))

\* ydl.download returns, its files written under outtmpl (lines 166, 184)
DownloadWrites(c) ==
    /\ call[c].pc = "download"
    /\ \E files \in DownloadListings(call[c].video_id, call[c].language) :
          fs' = [fs EXCEPT ![call[c].temp_dir] = Some(files)]
    /\ call' = [call EXCEPT ![c].pc = "written"]

\* the rest of download_operation (lines 186-207) and the way out
DownloadReads(c) ==
    /\ call[c].pc = "written"
    /\ LET subtitle_files == SubtitleFiles(fs[call[c].temp_dir][1], call[c].video_id)
       IN  IF subtitle_files = <<>>
           THEN DownloadOperationRaised(c, HTTPException(404, "No subtitles found for this video"))
           ELSE Leave(c, subtitle_files[1].name,
                      [NoResult EXCEPT
                          !.kind = "returned",
                          !.content = subtitle_files[1].content,
                          !.language = ActualLanguage(subtitle_files[1].name, call[c].video_id,
                                                      call[c].language)])

DownloadStep(c) ==
    /\ Enter(c) \/ DownloadRaises(c) \/ DownloadWrites(c) \/ DownloadReads(c)
    /\ UNCHANGED <<vttVars, cleanVars, reqVars, langVars, batchVars, retryVars,
                   actual_language, loopVars>>

NextDownload == \E c \in Callers : DownloadStep(c)

SpecDownload == InitDownload /\ [][NextDownload]_vars

(***************************************************************************)
(* The requests one event loop serves.  Every handler is an `async def`    *)
(* without an await (lines 305-605): once the loop has started a handler,  *)
(* its thread stays in that handler, through the calls of the external     *)
(* client and through time.sleep (line 105), until the handler returns.    *)
(***************************************************************************)
Tasks == {"t1", "t2", "t3"}

TaskRoutes == {"health", "transcript"}

Pending(r) == [route |-> r, pc |-> "pending", op |-> "", attempt |-> 0, delay |-> 0, status |-> 0]

InitLoop ==
    /\ tasks \in [Tasks -> { Pending(r) : r \in TaskRoutes }]
    /\ running = ""
    /\ DownloadIdle
    /\ actual_language = ""
    /\ info = NoInfo
    /\ urls = <<>> /\ results = <<>> /\ successful = 0 /\ failed = 0
    /\ base = 0 /\ outcome = NoOutcome
    /\ VttIdle
    /\ CleanIdle
    /\ ReqIdle

\* the status get_transcript answers with when e leaves retry_yt_dlp_operation
TaskSurfaced(op, e) ==
    IF op = "list" THEN RouteOuterCatch("transcript", RouteListCatch(GetVideoInfoCatch(e)))
    ELSE RouteOuterCatch("transcript", RouteFetchCatch("transcript", DownloadSubtitlesCatch(e)))

\* the loop starts the handler of t: health_check returns at once (lines 311-322),
\* get_transcript runs into its first call of the external client (lines 414-424)
Run(t) ==
    /\ running = ""
    /\ tasks[t].pc = "pending"
    /\ IF tasks[t].route = "health"
       THEN /\ tasks' = [tasks EXCEPT ![t].pc = "done", ![t].status = 200]
            /\ UNCHANGED running
       ELSE /\ tasks' = [tasks EXCEPT ![t].pc = "calling", ![t].op = "list",
                                      ![t].delay = DefaultDelay]
            /\ running' = t

\* the external call raises (lines 101-109): time.sleep, or the error response
ClientRaises(t) ==
    /\ running = t
    /\ tasks[t].pc = "calling"
    /\ \E cls \in ClientFailures :
          LET e == Exc(cls, FailureMessage(cls, tasks[t].attempt + 1))
          IN  IF RetryCatches(e) /\ ~IsLastAttempt(tasks[t].attempt, DefaultMaxRetries)
              THEN /\ tasks' = [tasks EXCEPT ![t].pc = "sleeping"]
                   /\ UNCHANGED running
              ELSE /\ tasks' = [tasks EXCEPT ![t].pc = "done",
                                             ![t].status = TaskSurfaced(tasks[t].op, e).status]
                   /\ running' = ""

\* time.sleep(delay) returns (lines 105-106)
Wakes(t) ==
    /\ running = t
    /\ tasks[t].pc = "sleeping"
    /\ tasks' = [tasks EXCEPT ![t].pc = "calling", ![t].attempt = @ + 1,
                              ![t].delay = NextDelay(@)]
    /\ UNCHANGED running

\* the external call returns: the listing is followed by the download (lines
\* 424-461), the download by the response (lines 463-470)
ClientReturns(t) ==
    /\ running = t
    /\ tasks[t].pc = "calling"
    /\ IF tasks[t].op = "list"
       THEN /\ tasks' = [tasks EXCEPT ![t].op = "fetch", ![t].attempt = 0,
                                      ![t].delay = DefaultDelay]
            /\ UNCHANGED running
       ELSE /\ tasks' = [tasks EXCEPT ![t].pc = "done", ![t].status = 200]
            /\ running' = ""

LoopStep(t) ==
    /\ Run(t) \/ ClientRaises(t) \/ Wakes(t) \/ ClientReturns(t)
    /\ UNCHANGED <<vttVars, cleanVars, reqVars, langVars, batchVars, retryVars,
                   downloadVars, actual_language>>

NextLoop == \E t \in Tasks : LoopStep(t)

SpecLoop == InitLoop /\ [][NextLoop]_vars

(***************************************************************************)
(* One request to GET /languages/{video_id} (lines 484-514): the path      *)
(* parameter goes to get_video_info as it is.                              *)
(***************************************************************************)
PathIds == {"abc", "invalid_url"}

LanguageEntry(code, generated) == [code |-> code, language |-> code, is_generated |-> generated]

\* the two for loops (lines 493-508)
LanguageEntries(i) ==
    [k \in 1..Len(i.subtitles) |-> LanguageEntry(i.subtitles[k], FALSE)]
        \o LET rest == SelectSeq(i.automatic_captions,
                                 LAMBDA c : \A k \in 1..Len(i.subtitles) : i.subtitles[k] # c)
           IN  [k \in 1..Len(rest) |-> LanguageEntry(rest[k], TRUE)]

InitLanguages ==
    /\ route = "languages"
    /\ video_id \in PathIds
    /\ pc = "list"
    /\ max_retries = DefaultMaxRetries
    /\ attempt = 0
    /\ delay = DefaultDelay
    /\ url = "" /\ lang = "" /\ format = ""
    /\ calls = [list |-> <<>>, fetch |-> <<>>]
    /\ sleeps = [list |-> <<>>, fetch |-> <<>>]
    /\ available_languages = <<>> /\ selected_language = ""
    /\ response = NoResponse
    /\ VttIdle
    /\ CleanIdle
    /\ ExtraIdle

\* ydl.extract_info raises (lines 139, 487, 512-514)
LanguagesListRaises ==
    /\ pc = "list"
    /\ \E cls \in ClientFailures \cup Unexpected :
          OperationRaised("list", Exc(cls, FailureMessage(cls, Len(calls.list) + 1)))

\* ydl.extract_info returns info (lines 487-510)
LanguagesListReturns ==
    /\ pc = "list"
    /\ \E i \in LangInfos :
          /\ info' = i
          /\ calls' = [calls EXCEPT !.list = Append(@, Returned)]
          /\ response' = [NoResponse EXCEPT !.status = 200, !.video_id = video_id,
                                            !.available_languages = LanguageEntries(i)]
    /\ pc' = "done"
    /\ UNCHANGED <<route, url, lang, format, video_id, max_retries, attempt, delay, sleeps,
                   available_languages, selected_language, vttVars, cleanVars,
                   batchVars, retryVars, moreVars>>

NextLanguages == LanguagesListRaises \/ LanguagesListReturns

SpecLanguages == InitLanguages /\ [][NextLanguages]_vars

(***************************************************************************)
(* Vocabulary of the claims about a request.                               *)
(***************************************************************************)
Operations == {"list", "fetch"}

Last(seq) == seq[Len(seq)]

\* the k-th invocation of op was followed by a time.sleep
SleptAfter(op, k) == \E i \in 1..Len(sleeps[op]) : sleeps[op][i].after = k

\* the k-th invocation of op was retried: a sleep or another invocation followed it
Retried(op, k) == k < Len(calls[op]) \/ SleptAfter(op, k)

\* every allowed attempt of op was made and failed with TransientNetwork
PersistentTransient(op) ==
    /\ Len(calls[op]) = max_retries
    /\ \A k \in 1..Len(calls[op]) : calls[op][k].cls \in TransientNetwork

\* the request ended because e left the retry loop of op
EndedBy(op, classes) ==
    /\ pc = "done"
    /\ calls[op] # <<>>
    /\ Last(calls[op]).cls \in classes
    /\ op = "list" => calls.fetch = <<>>

NoCaptionsAvailable == HTTPException(404, "No subtitles found for this video")

(***************************************************************************)
(* C1 as stated: retry_yt_dlp_operation retries only a TransientNetwork    *)
(* failure; a failure of any other category, VideoUnavailable included,    *)
(* is followed by no further invocation and by no sleep.                   *)
(***************************************************************************)
C1_RetriesOnlyTransient ==
    \A op \in Operations : \A k \in 1..Len(calls[op]) :
        Retried(op, k) => calls[op][k].cls \in TransientNetwork

(***************************************************************************)
(* C1 as amended: retry_yt_dlp_operation retries a failure of category     *)
(* TransientNetwork or VideoUnavailable while attempts remain, with one    *)
(* sleep before the next invocation; a failure of any other category is    *)
(* followed by no further invocation and by no sleep.                      *)
(***************************************************************************)
C1_RetriesTransientAndUnavailable ==
    \A op \in Operations : \A k \in 1..Len(calls[op]) :
        /\ Retried(op, k) => calls[op][k].cls \in TransientNetwork \cup VideoUnavailable
        /\ (calls[op][k].cls \in TransientNetwork \cup VideoUnavailable /\ k < max_retries)
               => SleptAfter(op, k)
        /\ calls[op][k].cls \notin TransientNetwork \cup VideoUnavailable
               => (k = Len(calls[op]) /\ ~SleptAfter(op, k))

\* a VideoUnavailable failure was retried and the Unexpected failure after it was not
C1_Witness ==
    /\ pc = "done"
    /\ \E op \in Operations :
          /\ Len(calls[op]) = 2
          /\ calls[op][1].cls \in VideoUnavailable
          /\ calls[op][2].cls \in Unexpected
          /\ Len(sleeps[op]) = 1

(***************************************************************************)
(* C2: a TransientNetwork failure that persists through every attempt, at  *)
(* track listing or at caption fetch, produces status 503.  At track       *)
(* listing the route's except clause turns the 503 into a 404.             *)
(***************************************************************************)
C2_PersistentTransientIs503 ==
    \A op \in Operations :
        (EndedBy(op, TransientNetwork) /\ PersistentTransient(op)) => response.status = 503

\* the half of C2 that is about the caption fetch
C2_FetchHalf ==
    (EndedBy("fetch", TransientNetwork) /\ PersistentTransient("fetch")) => response.status = 503

(***************************************************************************)
(* C3: when the fetch produces no caption artifact the response status is  *)
(* 404 and the fetch is not retried.  The except clauses of                *)
(* download_subtitles and of the route turn the 404 into 500, then 503.    *)
(***************************************************************************)
C3_NoCaptionsIs404 ==
    /\ \A k \in 1..Len(calls.fetch) :
           calls.fetch[k] = NoCaptionsAvailable => ~Retried("fetch", k)
    /\ (pc = "done" /\ calls.fetch # <<>> /\ Last(calls.fetch) = NoCaptionsAvailable)
           => response.status = 404

\* the half of C3 that says the fetch is not retried
C3_NotRetriedHalf ==
    \A k \in 1..Len(calls.fetch) :
        calls.fetch[k] = NoCaptionsAvailable => ~Retried("fetch", k)

(***************************************************************************)
(* C4: an Unexpected failure of the external client, at track listing or   *)
(* at caption fetch, produces status 500.  The route's except clauses      *)
(* answer 404 for the listing and 503 for the fetch.                       *)
(***************************************************************************)
C4_UnexpectedIs500 ==
    \A op \in Operations : EndedBy(op, Unexpected) => response.status = 500

(***************************************************************************)
(* C5: when track listing fails with VideoUnavailable, or succeeds with    *)
(* no offered language, the status is 404 and download_subtitles is never  *)
(* invoked for the request.                                                *)
(***************************************************************************)
ListingEmpty ==
    pc = "done" /\ calls.list # <<>> /\ Last(calls.list) = Returned /\ available_languages = <<>>

C5_NoTracksIs404 ==
    /\ (EndedBy("list", VideoUnavailable) \/ ListingEmpty)
           => (response.status = 404 /\ calls.fetch = <<>>)
    /\ calls.fetch # <<>>
           => (calls.list # <<>> /\ Last(calls.list) = Returned /\ available_languages # <<>>)

\* the listing failed with VideoUnavailable at every attempt
C5_Witness ==
    /\ EndedBy("list", VideoUnavailable)
    /\ \A k \in 1..Len(calls.list) : calls.list[k].cls \in VideoUnavailable
    /\ Len(calls.list) = max_retries
    /\ response.status = 404

\* the listing succeeded and offered nothing
C5_WitnessEmpty == ListingEmpty /\ response.status = 404

(***************************************************************************)
(* C6: a url from which no identifier can be extracted yields status 400   *)
(* with the message 'Invalid YouTube URL', and neither track listing nor   *)
(* caption fetch is invoked.                                               *)
(***************************************************************************)
C6_InvalidUrlIs400 ==
    url \in {"", "invalid_url"} =>
        /\ calls.list = <<>> /\ calls.fetch = <<>>
        /\ pc # "start" =>
              (pc = "done" /\ response.status = 400 /\ response.detail = "Invalid YouTube URL")

C6_Witness ==
    /\ url = "invalid_url" /\ route = "download"
    /\ pc = "done"
    /\ response.status = 400

(***************************************************************************)
(* Vocabulary of the claims about the transcoders.                         *)
(***************************************************************************)
\* the lines of the markup under transcoding
VttLines == Split(vtt_content, "\n")

\* a line containing '-->'
HasArrow(lines, b) == b \in 1..Len(lines) /\ Contains(lines[b], "-->")

\* a line containing '-->' that the scan takes as a cue boundary: its trimmed
\* form does not begin with a header or metadata prefix
OpensCue(lines, b) == HasArrow(lines, b) /\ ~IsHeader(Strip(lines[b]))

\* line j is a text line of the cue that starts at line b
TextOfCue(lines, b, j) == b < j /\ \A m \in (b + 1)..j : IsCueText(lines, m)

\* the text lines that belong to a cue when every line containing '-->' is a boundary
ArrowCueText(lines) ==
    { j \in 1..Len(lines) : \E b \in 1..Len(lines) : HasArrow(lines, b) /\ TextOfCue(lines, b, j) }

\* the text lines that belong to a cue when only the lines of OpensCue are boundaries
ScanCueText(lines) ==
    { j \in 1..Len(lines) : \E b \in 1..Len(lines) : OpensCue(lines, b) /\ TextOfCue(lines, b, j) }

\* the cleaned, non-empty forms of the lines of index set S from j on, in document order
RECURSIVE Surviving(_, _, _)
Surviving(lines, j, S) ==
    IF j > Len(lines) THEN <<>>
    ELSE (IF j \in S /\ Clean(Strip(lines[j])) # "" THEN <<Clean(Strip(lines[j]))>> ELSE <<>>)
         \o Surviving(lines, j + 1, S)

\* the cues that keep at least one cleaned text line
SurvivingCues(lines) ==
    { b \in 1..Len(lines) :
        OpensCue(lines, b)
        /\ \E j \in 1..Len(lines) : TextOfCue(lines, b, j) /\ Clean(Strip(lines[j])) # "" }

\* the strings of the lines of srt_lines appended as cue numbers
NumberStrings(ls) == SrtStrings(SelectSeq(ls, LAMBDA l : l.kind = "number"))

\* a line containing '-->' that is followed by a blank line, by another line
\* containing '-->' or by the end of the input
EmptyBoundary(lines, b) ==
    /\ HasArrow(lines, b)
    /\ \/ b = Len(lines)
       \/ Strip(lines[b + 1]) = ""
       \/ Contains(lines[b + 1], "-->")

\* the markup without its line b
WithoutLine(lines, b) ==
    Join(SubSeq(lines, 1, b - 1) \o SubSeq(lines, b + 1, Len(lines)), "\n")

(***************************************************************************)
(* C7: in the output of convert_to_srt the cue-number lines are exactly    *)
(* 1, 2, ..., n, where n is the number of cues with at least one           *)
(* surviving cleaned text line; a cue without surviving text emits no      *)
(* number.  The code appends the number and the timestamp before it        *)
(* collects the text, so this fails.                                       *)
(***************************************************************************)
C7_CueNumbersSequential ==
    vstage = "srt" =>
        NumberStrings(srt_lines)
            = [k \in 1..Cardinality(SurvivingCues(VttLines)) |-> Str(k)]

(***************************************************************************)
(* C8: a line containing '-->' that is followed by a blank line, another   *)
(* such line or the end of input contributes nothing: both transcoders     *)
(* return what they return for the markup without that line.  This fails   *)
(* for convert_to_srt, which still emits a number and a timestamp.         *)
(***************************************************************************)
C8_EmptyBoundaryContributesNothing ==
    \A b \in 1..Len(VttLines) :
        EmptyBoundary(VttLines, b) =>
            /\ vstage = "txt" => rendered = parse_vtt_content(WithoutLine(VttLines, b))
            /\ vstage = "srt" => rendered = convert_to_srt(WithoutLine(VttLines, b))

\* the half of C8 that is about parse_vtt_content
C8_PlainTextHalf ==
    \A b \in 1..Len(VttLines) :
        (EmptyBoundary(VttLines, b) /\ vstage = "txt") =>
            rendered = parse_vtt_content(WithoutLine(VttLines, b))

(***************************************************************************)
(* C9 as stated: parse_vtt_content returns the single-space join of the    *)
(* cleaned non-empty text lines that follow a line containing '-->', and   *)
(* no header or metadata line appears in its output.                       *)
(***************************************************************************)
C9_PlainTextOfArrowCues ==
    vstage = "txt" =>
        /\ rendered = Join(Surviving(VttLines, 1, ArrowCueText(VttLines)), " ")
        /\ \A j \in 1..Len(VttLines) :
               IsHeader(Strip(VttLines[j])) => ~Contains(rendered, Strip(VttLines[j]))

(***************************************************************************)
(* C9 as amended: parse_vtt_content returns the single-space join, in      *)
(* document order, of the cleaned non-empty text lines of the cues, where  *)
(* a cue starts at a line containing '-->' whose trimmed form does not     *)
(* begin with WEBVTT, Kind: or Language:, and a line that directly         *)
(* continues a cue is its text even when it begins with such a prefix.     *)
(***************************************************************************)
C9_PlainTextOfScanCues ==
    vstage = "txt" =>
        rendered = Join(Surviving(VttLines, 1, ScanCueText(VttLines)), " ")

\* a markup with a cue, and with text after a metadata-prefixed '-->' line, rendered
C9_Witness ==
    /\ vstage = "txt"
    /\ rendered = "Hello & welcome"
    /\ ArrowCueText(VttLines) # ScanCueText(VttLines)

(***************************************************************************)
(* Vocabulary of the claims about the cleaning.                            *)
(***************************************************************************)
\* s contains a tag: '<', at least one character other than '>', then '>'
HasTag(s) ==
    \E i, j \in 1..Len(s) :
        /\ Ch(s, i) = "<" /\ Ch(s, j) = ">" /\ j >= i + 2
        /\ \A k \in (i + 1)..(j - 1) : Ch(s, k) # ">"

HasEntity(s) == Contains(s, "&amp;") \/ Contains(s, "&lt;") \/ Contains(s, "&gt;")

(***************************************************************************)
(* C10 as stated: cleaning is idempotent, clean(clean(t)) = clean(t) for   *)
(* every text line t.                                                      *)
(***************************************************************************)
C10_CleanIdempotent == Len(cleaned) = 2 => cleaned[2] = cleaned[1]

(***************************************************************************)
(* C10 as amended: clean(clean(t)) = clean(t) exactly when clean(t)        *)
(* contains no tag and none of the three entities, which is the case for   *)
(* every line t without '&'.                                               *)
(***************************************************************************)
C10_CleanIdempotentOnPlainResult ==
    Len(cleaned) = 2 =>
        /\ (cleaned[2] = cleaned[1]) <=> (~HasTag(cleaned[1]) /\ ~HasEntity(cleaned[1]))
        /\ ~Contains(text, "&") => cleaned[2] = cleaned[1]

\* a line with a tag and an entity, cleaned twice with the same result
C10_Witness ==
    /\ Len(cleaned) = 2
    /\ HasTag(text) /\ HasEntity(StripTags(text))
    /\ cleaned[1] # ""
    /\ cleaned[2] = cleaned[1]

(***************************************************************************)
(* Vocabulary of the claims about the offered list and the selection.      *)
(***************************************************************************)
\* the set of the elements of a sequence
Range(seq) == { seq[k] : k \in 1..Len(seq) }

\* the index of x in a sequence without repetition that contains it
IndexOf(x, seq) == CHOOSE k \in 1..Len(seq) : seq[k] = x

NoDuplicate(seq) == \A i, j \in 1..Len(seq) : i # j => seq[i] # seq[j]

(***************************************************************************)
(* C11: on a non-empty offered list the selection returns the requested    *)
(* code if it is offered; otherwise 'en' if 'en' is offered; otherwise the *)
(* first offered code.  The result is a member of the offered list and is  *)
(* determined by the requested code and the offered list alone.            *)
(***************************************************************************)
C11_SelectionRule ==
    selected_language # "" =>
        /\ available_languages # <<>>
        /\ selected_language \in Range(available_languages)
        /\ lang \in Range(available_languages) => selected_language = lang
        /\ (lang \notin Range(available_languages) /\ "en" \in Range(available_languages))
               => selected_language = "en"
        /\ (lang \notin Range(available_languages) /\ "en" \notin Range(available_languages))
               => selected_language = available_languages[1]

\* neither the requested code nor 'en' is offered and two codes are: the first is selected
C11_Witness ==
    /\ pc = "done" /\ route = "batch"
    /\ lang = "fr"
    /\ available_languages = <<"es", "de">>
    /\ selected_language = "es"

\* 'en' is offered first and the requested code after it: the requested code is selected
C11_WitnessRequested ==
    /\ pc = "done"
    /\ lang = "es"
    /\ available_languages = <<"en", "de", "es">>
    /\ selected_language = "es"

(***************************************************************************)
(* C12: the offered list is the manual codes in listing order followed by  *)
(* the auto-generated codes that are not manual, in listing order; it has  *)
(* no duplicate and its elements are exactly the manual and the            *)
(* auto-generated codes of the listing.                                    *)
(***************************************************************************)
C12_OfferedManualFirst ==
    pc \in {"select", "done"} =>
        LET manual == info.subtitles
            auto == info.automatic_captions
            offered == available_languages
        IN  /\ Len(offered) >= Len(manual)
            /\ SubSeq(offered, 1, Len(manual)) = manual
            /\ NoDuplicate(offered)
            /\ Range(offered) = Range(manual) \cup Range(auto)
            /\ \A i, j \in (Len(manual) + 1)..Len(offered) :
                   i < j => IndexOf(offered[i], auto) < IndexOf(offered[j], auto)

\* a listing whose auto-generated codes repeat manual ones and add one between them
C12_Witness ==
    /\ pc = "done"
    /\ info.subtitles = <<"es", "de">>
    /\ info.automatic_captions = <<"de", "en", "es">>
    /\ available_languages = <<"es", "de", "en">>

(***************************************************************************)
(* Vocabulary of the claims about a batch.                                 *)
(***************************************************************************)
\* the number of results whose success is b
CountOf(rs, b) == Cardinality({ k \in 1..Len(rs) : rs[k].success = b })

\* the offered list `offered` is what the listing i yields: manual codes first
ManualFirst(offered, i) ==
    /\ Len(offered) >= Len(i.subtitles)
    /\ SubSeq(offered, 1, Len(i.subtitles)) = i.subtitles
    /\ NoDuplicate(offered)
    /\ Range(offered) = Range(i.subtitles) \cup Range(i.automatic_captions)

\* the offered list of the item just recorded is the one built from its listing
C12_BatchReturnsOffered ==
    (pc = "item" /\ results # <<>> /\ Last(results).available_languages # None)
        => /\ Last(results).available_languages = Some(available_languages)
           /\ ManualFirst(available_languages, info)

\* the 200 response of /transcript carries the offered list the selection was made from
C12_TranscriptReturnsOffered ==
    (route = "transcript" /\ response.status = 200)
        => response.available_languages = available_languages

(***************************************************************************)
(* C13: a batch always ends with a 200 response: a failure of an item at   *)
(* extraction, listing, empty-offered check or fetch is recorded in that   *)
(* item's result (success false, error set), the items after it are still  *)
(* processed, and results has one entry per url, in input order, with      *)
(* results[i].url = urls[i].                                               *)
(***************************************************************************)
C13_ItemFailuresAreRecorded ==
    /\ Len(results) <= Len(urls)
    /\ \A k \in 1..Len(results) :
          /\ results[k].url = urls[k]
          /\ results[k].success = (results[k].error = None)
    /\ pc # "done" => ENABLED NextBatch
    /\ pc = "done" =>
          /\ response.status = 200
          /\ response.results = results
          /\ Len(results) = Len(urls)

\* a batch answered after a failed listing, then a success
C13_Witness ==
    /\ pc = "done"
    /\ Len(results) = 2
    /\ ~results[1].success /\ results[1].video_id # None /\ results[1].available_languages = None
    /\ results[2].success

\* a batch answered after a failed fetch, then an invalid url
C13_WitnessFetch ==
    /\ pc = "done"
    /\ Len(results) = 2
    /\ ~results[1].success /\ results[1].available_languages \notin {None, Some(<<>>)}
    /\ results[2].video_id = None

(***************************************************************************)
(* C14: total_requested = length of urls = length of results; successful   *)
(* and failed count the results with success true and false and add up to  *)
(* total_requested; after every prefix of the urls successful + failed is   *)
(* the number of results appended so far; for urls = [] the counters are 0 *)
(* and results is empty.                                                   *)
(***************************************************************************)
C14_CountersMatchResults ==
    /\ successful + failed = Len(results)
    /\ successful = CountOf(results, TRUE)
    /\ failed = CountOf(results, FALSE)
    /\ pc = "done" =>
          /\ response.total_requested = Len(urls)
          /\ response.total_requested = Len(response.results)
          /\ response.successful = CountOf(response.results, TRUE)
          /\ response.failed = CountOf(response.results, FALSE)
          /\ response.successful + response.failed = response.total_requested
          /\ urls = <<>> =>
                /\ response.total_requested = 0 /\ response.successful = 0
                /\ response.failed = 0 /\ response.results = <<>>

\* a batch answered with one success and one failure
C14_Witness ==
    /\ pc = "done"
    /\ response.total_requested = 2
    /\ response.successful = 1 /\ response.failed = 1

\* the empty batch answered
C14_WitnessEmpty == pc = "done" /\ urls = <<>> /\ response.total_requested = 0

(***************************************************************************)
(* C15: in a batch result video_id is the extracted identifier exactly     *)
(* when extraction succeeded for the url, whatever happened later; the     *)
(* result of an invalid url has success false, no video_id and the error   *)
(* of InvalidInput, 'Invalid YouTube URL'.                                 *)
(***************************************************************************)
C15_VideoIdIffExtracted ==
    \A k \in 1..Len(results) :
        /\ results[k].url = "https://youtu.be/abc" => results[k].video_id = Some("abc")
        /\ results[k].url = "invalid_url" =>
              /\ results[k].video_id = None
              /\ ~results[k].success
              /\ results[k].error # None
              /\ Contains(results[k].error[1], "Invalid YouTube URL")
        /\ results[k].video_id # None => results[k].url # "invalid_url"

\* an invalid url, then a url whose identifier was extracted and whose fetch failed
C15_Witness ==
    /\ Len(results) = 2
    /\ results[1].url = "invalid_url" /\ results[1].video_id = None
    /\ results[2].video_id = Some("abc") /\ ~results[2].success
    /\ results[2].available_languages \notin {None, Some(<<>>)}

(***************************************************************************)
(* Vocabulary of the claims about a call of retry_yt_dlp_operation.        *)
(***************************************************************************)
\* the failure categories the wrapper retries
Retryable == TransientNetwork \cup VideoUnavailable

\* the invocations of op made so far all failed with a retryable failure
AllRetryable(op, n) == \A k \in 1..n : calls[op][k].cls \in Retryable

(***************************************************************************)
(* C16: for a maximum attempt count N >= 1 one call of                     *)
(* retry_yt_dlp_operation invokes the operation at most N times; it stops  *)
(* at the first successful invocation and returns that invocation's        *)
(* result; it invokes the operation N times only if the first N-1          *)
(* invocations all failed with a retryable failure.                        *)
(***************************************************************************)
C16_AtMostNInvocations ==
    \A op \in Operations :
        /\ Len(calls[op]) <= max_retries
        /\ \A k \in 1..Len(calls[op]) :
              calls[op][k].cls = "ok" =>
                  /\ k = Len(calls[op])
                  /\ pc = "done"
                  /\ outcome = [kind |-> "returned", value |-> calls[op][k]]
        /\ Len(calls[op]) = max_retries => AllRetryable(op, max_retries - 1)

\* the fourth of four allowed invocations succeeded after three retryable failures
C16_Witness ==
    /\ max_retries = 4
    /\ Len(calls.list) = 4
    /\ calls.list[1].cls = "ConnectionError" /\ calls.list[2].cls = "DownloadError"
    /\ outcome = [kind |-> "returned", value |-> Exc("ok", "r2")]

(***************************************************************************)
(* C17: the wait that precedes attempt k+1 is base * 2^(k-1) time units,   *)
(* 1 then 2 with the defaults; one wait happens between two consecutive    *)
(* attempts, none before the first attempt, after a success or after the   *)
(* final failed attempt.                                                   *)
(***************************************************************************)
C17_ExponentialBackoff ==
    \A op \in Operations :
        /\ \A k \in 1..Len(sleeps[op]) :
              sleeps[op][k] = [after |-> k, delay |-> base * 2^(k - 1)]
        /\ (pc = "done" /\ calls[op] # <<>>) => Len(sleeps[op]) = Len(calls[op]) - 1
        /\ pc # "done" => Len(sleeps[op]) = Len(calls[op])

\* the defaults: three failed attempts, waits of 1 and 2, none after the last
C17_Witness ==
    /\ pc = "done"
    /\ max_retries = DefaultMaxRetries /\ base = DefaultDelay
    /\ Len(calls.fetch) = 3 /\ outcome.kind = "raised"
    /\ sleeps.fetch = <<[after |-> 1, delay |-> 1], [after |-> 2, delay |-> 2]>>

\* four attempts from a first delay of 2: waits of 2, 4 and 8
C17_WitnessLong ==
    /\ pc = "done"
    /\ [k \in 1..Len(sleeps.list) |-> sleeps.list[k].delay] = <<2, 4, 8>>

(***************************************************************************)
(* C18: when each of the N attempts fails with a retryable failure, the    *)
(* failure that leaves retry_yt_dlp_operation is the failure of the N-th   *)
(* attempt, with its category and message: not wrapped, not a synthetic    *)
(* error, not the failure of an earlier attempt.                           *)
(***************************************************************************)
C18_LastFailurePropagates ==
    \A op \in Operations :
        (pc = "done" /\ Len(calls[op]) = max_retries /\ AllRetryable(op, max_retries))
            => outcome = [kind |-> "raised", value |-> calls[op][max_retries]]

\* three attempts failed with three different retryable failures
C18_Witness ==
    /\ pc = "done"
    /\ max_retries = 3
    /\ calls.list = <<Exc("DownloadError", "DownloadError #1"),
                      Exc("BrokenPipeError", "BrokenPipeError #2"),
                      Exc("ConnectionError", "ConnectionError #3")>>
    /\ outcome.value.msg = "ConnectionError #3"

(***************************************************************************)
(* Vocabulary of the claims about extract_video_id.                        *)
(***************************************************************************)
\* the characters that end an identifier
Stops == {"&", "?", "#", "\n"}

\* the markers as the claims name them
StatedMarkers == {"watch?v=", "youtu.be/", "/embed/", "/v/"}

\* the markers with the host the patterns require before them
HostMarkers == {"youtube.com/watch?v=", "youtu.be/", "youtube.com/embed/", "youtube.com/v/"}

\* the marker m occurs in u at position i and an identifier character follows it
Occurs(u, m, i) ==
    /\ MatchAt(u, i, m)
    /\ i + Len(m) <= Len(u)
    /\ Ch(u, i + Len(m)) \notin Stops

\* r is the maximal non-empty run of identifier characters of u that starts at position j
IsRunAt(u, j, r) ==
    /\ Len(r) >= 1
    /\ j + Len(r) - 1 <= Len(u)
    /\ r = SubSeq(u, j, j + Len(r) - 1)
    /\ \A k \in 1..Len(r) : Ch(r, k) \notin Stops
    /\ (j + Len(r) > Len(u) \/ Ch(u, j + Len(r)) \in Stops)

\* some marker of M occurs in u followed by an identifier character
HasOccurrence(u, M) == \E m \in M : \E i \in 1..Len(u) : Occurs(u, m, i)

\* r is the run that follows the leftmost occurrence in u of a marker of M
FollowsLeftmost(u, M, r) ==
    \E m \in M : \E i \in 1..Len(u) :
        /\ Occurs(u, m, i)
        /\ \A n \in M : \A h \in 1..(i - 1) : ~Occurs(u, n, h)
        /\ IsRunAt(u, i + Len(m), r)

\* extract_video_id is to the markers M what the claim says: the result is the run
\* after a marker, the failure is InvalidInput and happens exactly when no marker
\* is followed by an identifier character
ExtractsAfter(M) ==
    pc = "done" =>
        /\ outcome.kind = "returned" =>
              \E m \in M : \E i \in 1..Len(url) :
                  MatchAt(url, i, m) /\ IsRunAt(url, i + Len(m), outcome.value.msg)
        /\ outcome.kind = "raised" => outcome.value = Exc("ValueError", "Invalid YouTube URL")
        /\ (outcome.kind = "raised") = ~HasOccurrence(url, M)

(***************************************************************************)
(* C19 as stated: extract_video_id returns the maximal non-empty run that  *)
(* follows a recognized marker (watch?v=, youtu.be/, /embed/, /v/) and     *)
(* precedes the first '&', '?', '#' or newline, and fails with             *)
(* 'Invalid YouTube URL' exactly when no such marker is followed by an     *)
(* identifier character.                                                   *)
(***************************************************************************)
C19_ExtractsAfterMarker == ExtractsAfter(StatedMarkers)

(***************************************************************************)
(* C19 as amended: the recognized markers are youtube.com/watch?v=,        *)
(* youtu.be/, youtube.com/embed/ and youtube.com/v/; the result is the     *)
(* maximal non-empty run after such a marker, and the call fails with      *)
(* 'Invalid YouTube URL' exactly when no such marker is followed by an     *)
(* identifier character.                                                   *)
(***************************************************************************)
C19_ExtractsAfterHostMarker == ExtractsAfter(HostMarkers)

\* a marker followed by two identifier characters
C19_Witness ==
    /\ pc = "done"
    /\ url = "youtube.com/embed/ab"
    /\ outcome = [kind |-> "returned", value |-> Exc("ok", "ab")]

\* /embed/ under another host: no identifier
C19_WitnessOtherSite ==
    /\ pc = "done"
    /\ url = "example.com/embed/a"
    /\ outcome.kind = "raised"

(***************************************************************************)
(* C20 as stated: the shapes are tried in the order query-parameter,       *)
(* short-link, embed, /v/, and the first shape in that order that matches  *)
(* anywhere in the url gives the result, wherever the matches of the later *)
(* shapes are.                                                             *)
(***************************************************************************)
C20_FourShapesInOrder ==
    (pc = "done" /\ outcome.kind = "returned") =>
        LET order == <<"youtube.com/watch?v=", "youtu.be/", "youtube.com/embed/",
                       "youtube.com/v/">>
        IN  \E n \in 1..Len(order) :
                /\ \A h \in 1..(n - 1) : ~HasOccurrence(url, {order[h]})
                /\ FollowsLeftmost(url, {order[n]}, video_id)

(***************************************************************************)
(* C20 as amended: the query-parameter and the short-link form are one     *)
(* shape, of which the leftmost match in the url gives the result; that    *)
(* shape is tried before the embed form and the embed form before the /v/  *)
(* form, and the first of the three that matches anywhere gives the        *)
(* result, wherever the matches of the later ones are.                     *)
(***************************************************************************)
C20_ThreeShapesInOrder ==
    (pc = "done" /\ outcome.kind = "returned") =>
        LET order == << {"youtube.com/watch?v=", "youtu.be/"}, {"youtube.com/embed/"},
                        {"youtube.com/v/"} >>
        IN  \E n \in 1..Len(order) :
                /\ \A h \in 1..(n - 1) : ~HasOccurrence(url, order[h])
                /\ FollowsLeftmost(url, order[n], video_id)

\* a /v/ match before an embed match: the embed identifier is returned
C20_Witness ==
    /\ pc = "done"
    /\ url = "youtube.com/v/youtube.com/embed/b"
    /\ video_id = "b"

\* a short-link match before a query-parameter match: the short-link run is returned
C20_WitnessLeftmost ==
    /\ pc = "done"
    /\ url = "youtu.be/youtube.com/watch?v=b"
    /\ video_id = "youtube.com/watch"

(***************************************************************************)
(* Vocabulary of the claims about timestamp lines.                         *)
(***************************************************************************)
\* out is src with every '.' replaced by ',' and every other character in place
IsDotToComma(src, out) ==
    /\ Len(out) = Len(src)
    /\ \A k \in 1..Len(src) : Ch(out, k) = (IF Ch(src, k) = "." THEN "," ELSE Ch(src, k))

\* the lines of srt_lines appended as timestamps
TimestampStrings(ls) == SrtStrings(SelectSeq(ls, LAMBDA l : l.kind = "timestamp"))

\* the number of cue boundaries of lines up to line b
BoundaryRank(lines, b) == Cardinality({ c \in 1..b : OpensCue(lines, c) })

(***************************************************************************)
(* C21: convert_to_srt emits the timestamp-range line of every surviving   *)
(* cue, as the scan reads it (trimmed), with every '.' replaced by ',' and *)
(* every other character unchanged and at the same position.               *)
(***************************************************************************)
C21_TimestampDotsToCommas ==
    vstage = "srt" =>
        \A b \in SurvivingCues(VttLines) :
            /\ BoundaryRank(VttLines, b) <= Len(TimestampStrings(srt_lines))
            /\ IsDotToComma(Strip(VttLines[b]),
                            TimestampStrings(srt_lines)[BoundaryRank(VttLines, b)])

\* the line 00:00:01.500 --> 00:00:03.000 with a text line that contains a '.'
C21_Witness ==
    /\ vstage = "srt"
    /\ vtt_content = "00:00:01.500 --> 00:00:03.000\nv1.0 &lt;ok&gt;"
    /\ rendered = "1\n00:00:01,500 --> 00:00:03,000\nv1.0 <ok>\n"

(***************************************************************************)
(* C22: get_clean_vtt returns its input unchanged when the input begins    *)
(* with WEBVTT, and otherwise WEBVTT, a blank line, then the input         *)
(* unchanged; its output always begins with WEBVTT, and applying it twice  *)
(* gives what applying it once gives.                                      *)
(***************************************************************************)
C22_HeaderPrependedOnce ==
    vstage \in {"vtt", "vtt2"} =>
        LET begins == Len(vtt_content) >= 6 /\ SubSeq(vtt_content, 1, 6) = "WEBVTT"
        IN  /\ begins => rendered = vtt_content
            /\ ~begins => rendered = "WEBVTT" \o "\n" \o "\n" \o vtt_content
            /\ SubSeq(rendered, 1, 6) = "WEBVTT"

\* a markup whose header is on its second line, passed twice
C22_Witness ==
    /\ vstage = "vtt2"
    /\ vtt_content = " \nWEBVTT\n0.1 --> 0.2\n<b>Hi</b>"
    /\ rendered = "WEBVTT\n\n \nWEBVTT\n0.1 --> 0.2\n<b>Hi</b>"

\* a markup that begins with the header, passed twice
C22_WitnessUnchanged ==
    /\ vstage = "vtt2"
    /\ vtt_content = "WEBVTT\n\n0.1 --> 0.2\n<b>Hi</b>"
    /\ rendered = vtt_content

(***************************************************************************)
(* Vocabulary of the claims about calls of download_subtitles.             *)
(***************************************************************************)
\* name is <id>.<code>.vtt for a code that is not empty and holds no dot
HasLanguageShape(name, id) ==
    /\ Len(name) > Len(id) + 5
    /\ SubSeq(name, 1, Len(id) + 1) = id \o "."
    /\ SubSeq(name, Len(name) - 3, Len(name)) = ".vtt"
    /\ \A k \in (Len(id) + 2)..(Len(name) - 4) : Ch(name, k) # "."

LanguageCodeOf(name, id) == SubSeq(name, Len(id) + 2, Len(name) - 4)

\* the call of c is between the entry and the exit of its with block
Active(c) == call[c].pc \in {"download", "written"}

Exists(d) == fs[d] # None

FilesIn(d) == fs[d][1]

(***************************************************************************)
(* C23: the language download_subtitles returns is the code in the name    *)
(* <identifier>.<code>.vtt of the file it selected when the name has that  *)
(* shape, also when the code is not the requested one; otherwise the       *)
(* requested code when one was given; otherwise the literal unknown.       *)
(***************************************************************************)
C23_ResolvedLanguage ==
    \A c \in Callers :
        call[c].result.kind = "returned" =>
            LET name == call[c].subtitle_file
                id == call[c].video_id
            IN  call[c].result.language =
                    IF HasLanguageShape(name, id) THEN LanguageCodeOf(name, id)
                    ELSE IF call[c].language # "" THEN call[c].language
                    ELSE "unknown"

\* a file of another code than the requested one was selected
C23_Witness ==
    /\ call["c1"].language = "en"
    /\ call["c1"].subtitle_file = "abc.en-orig.vtt"
    /\ call["c1"].result.kind = "returned"
    /\ call["c1"].result.language = "en-orig"

\* a name without a code: the requested code
C23_WitnessRequested ==
    /\ call["c1"].language = "en"
    /\ call["c1"].subtitle_file = "abc.vtt"
    /\ call["c1"].result.language = "en"

\* a name without a code and no requested code
C23_WitnessUnknown ==
    /\ call["c1"].language = ""
    /\ call["c1"].subtitle_file = "abc.vtt"
    /\ call["c1"].result.language = "unknown"

(***************************************************************************)
(* C24: every call of download_subtitles has a temporary directory of its  *)
(* own, empty until its own download writes into it and holding nothing    *)
(* but the files of its own download; no two calls in progress have the    *)
(* same directory; and once a call has returned, by any way out, its       *)
(* directory and the files in it are gone: the directories that exist are  *)
(* those of the calls in progress.                                         *)
(***************************************************************************)
C24_OwnScratchDirectory ==
    /\ \A c \in Callers :
          Active(c) =>
              /\ Exists(call[c].temp_dir)
              /\ call[c].pc = "download" => FilesIn(call[c].temp_dir) = <<>>
              /\ FilesIn(call[c].temp_dir) = <<>>
                    \/ FilesIn(call[c].temp_dir)
                           \in DownloadListings(call[c].video_id, call[c].language)
    /\ \A c, d \in Callers :
          Active(c) /\ Active(d) /\ c # d => call[c].temp_dir # call[d].temp_dir
    /\ \A d \in DirNames :
          Exists(d) => \E c \in Callers : Active(c) /\ call[c].temp_dir = d

\* two calls in progress, each with the caption file of its own video
C24_Witness ==
    /\ call["c1"].pc = "written" /\ call["c2"].pc = "written"
    /\ call["c1"].video_id = "abc"
    /\ FilesIn(call["c1"].temp_dir) = <<[name |-> "abc.en.vtt", content |-> PayloadOf("abc.en.vtt", "abc")]>>
    /\ FilesIn(call["c2"].temp_dir) = <<[name |-> "xyz.en.vtt", content |-> PayloadOf("xyz.en.vtt", "xyz")]>>

\* both calls have returned, one with a payload and one with the failure that
\* follows three transient failures, and no directory is left
C24_WitnessReturned ==
    /\ call["c1"].result.kind = "returned"
    /\ call["c2"].result.kind = "raised" /\ call["c2"].result.exc.status = 503
    /\ call["c2"].attempt = 2
    /\ \A d \in DirNames : ~Exists(d)

\* the other ways out: no caption file, the video unavailable, an unexpected failure
C24_WitnessOtherExits ==
    /\ call["c1"].result.kind = "raised" /\ call["c1"].result.exc.status = 404
    /\ call["c2"].result.kind = "raised" /\ call["c2"].result.exc.status = 500
    /\ \A d \in DirNames : ~Exists(d)

(***************************************************************************)
(* C25: while one request waits in the backoff sleep or in a call of the   *)
(* external client, every other request that has not been started can be   *)
(* started: the wait does not hold what serves the other requests.         *)
(***************************************************************************)
C25_WaitLeavesOthersRunnable ==
    \A t, u \in Tasks :
        tasks[t].pc \in {"sleeping", "calling"} /\ tasks[u].pc = "pending"
            => ENABLED LoopStep(u)

(***************************************************************************)
(* C26: a successful GET /transcript/download answers 200 with the body    *)
(* parse_vtt_content, convert_to_srt or get_clean_vtt of the fetched       *)
(* payload for the format txt, srt or vtt, the media type text/plain,      *)
(* text/srt or text/vtt, and the header Content-Disposition                *)
(* attachment; filename=<id>_<lang>.<ext> where <ext> is the requested     *)
(* format and <lang> the language download_subtitles resolved.             *)
(***************************************************************************)
C26_DownloadResponse ==
    route = "download" /\ response.status = 200 =>
        /\ format = "txt" => /\ response.content = parse_vtt_content(vtt_content)
                             /\ response.media_type = "text/plain"
        /\ format = "srt" => /\ response.content = convert_to_srt(vtt_content)
                             /\ response.media_type = "text/srt"
        /\ format = "vtt" => /\ response.content = get_clean_vtt(vtt_content)
                             /\ response.media_type = "text/vtt"
        /\ format \in {"txt", "srt", "vtt"}
        /\ response.content_disposition =
               "attachment; filename=" \o video_id \o "_" \o actual_language \o "." \o format

\* the resolved language is not the selected one
C26_Witness ==
    /\ route = "download" /\ format = "srt" /\ response.status = 200
    /\ selected_language = "en" /\ actual_language = "en-orig"
    /\ vtt_content = "WEBVTT\n\n0.1 --> 0.2\nHi\n"
    /\ response.content = "1\n0,1 --> 0,2\nHi\n"
    /\ response.content_disposition = "attachment; filename=abc_en-orig.srt"

\* the language reported by GET /transcript is the resolved one as well
C23_ResponseHalf ==
    route = "transcript" /\ response.status = 200 => response.language = actual_language

(***************************************************************************)
(* C27: GET /languages/{video_id} reports every offered code exactly once: *)
(* the manual codes first, in the order of the listing, with is_generated  *)
(* false, then the codes that are only auto-generated, in the order of the *)
(* listing, with is_generated true; and when the listing has failed, for   *)
(* whatever reason, the status is 500.                                     *)
(***************************************************************************)
Codes(entries) == [k \in 1..Len(entries) |-> entries[k].code]

\* the positions a < b of seq hold codes that come in that order in listing
InOrderOf(seq, listing) ==
    \A a, b \in 1..Len(seq) : a < b => IndexOf(seq[a], listing) < IndexOf(seq[b], listing)

C27_LanguagesReported ==
    /\ response.status = 200 =>
          LET entries == response.available_languages
              manual == SelectSeq(entries, LAMBDA x : ~x.is_generated)
              generated == SelectSeq(entries, LAMBDA x : x.is_generated)
          IN  /\ NoDuplicate(Codes(entries))
              /\ Range(Codes(entries)) = Range(info.subtitles) \cup Range(info.automatic_captions)
              /\ entries = manual \o generated
              /\ Codes(manual) = info.subtitles
              /\ Range(Codes(generated)) = Range(info.automatic_captions) \ Range(info.subtitles)
              /\ InOrderOf(Codes(generated), info.automatic_captions)
              /\ \A k \in 1..Len(entries) : entries[k].language = entries[k].code
              /\ response.video_id = video_id
    /\ pc = "done" =>
          /\ Last(calls.list) = Returned => response.status = 200
          /\ Last(calls.list) # Returned => response.status = 500

\* a code with both kinds of track, an auto-only code before it in the listing
C27_Witness ==
    /\ info = [subtitles |-> <<"es", "en">>, automatic_captions |-> <<"de", "en">>]
    /\ response.status = 200
    /\ response.available_languages =
           << [code |-> "es", language |-> "es", is_generated |-> FALSE],
              [code |-> "en", language |-> "en", is_generated |-> FALSE],
              [code |-> "de", language |-> "de", is_generated |-> TRUE] >>

\* the video is unavailable; three transient failures; an unexpected failure
C27_WitnessUnavailable ==
    /\ pc = "done" /\ Last(calls.list).cls = "DownloadError" /\ response.status = 500

C27_WitnessTransient ==
    /\ pc = "done" /\ Len(calls.list) = 3 /\ Last(calls.list).cls = "ConnectionError"
    /\ response.status = 500

C27_WitnessUnexpected ==
    /\ pc = "done" /\ Last(calls.list).cls = "KeyError" /\ response.status = 500

(***************************************************************************)
(* C28: cleaning unescapes each entity occurrence of the line at most      *)
(* once: the cleaned line is the line without its tags in which every      *)
(* occurrence of &amp;, &lt; and &gt; has been replaced by its character,   *)
(* and a character produced by one replacement is never part of another;   *)
(* so &amp;lt; is cleaned to &lt; and not to <.                             *)
(***************************************************************************)
\* one pass from left to right over s, each entity replaced where it stands
RECURSIVE UnescapedOnce(_)
UnescapedOnce(s) ==
    IF s = "" THEN ""
    ELSE IF MatchAt(s, 1, "&amp;") THEN "&" \o UnescapedOnce(From(s, 6))
    ELSE IF MatchAt(s, 1, "&lt;") THEN "<" \o UnescapedOnce(From(s, 5))
    ELSE IF MatchAt(s, 1, "&gt;") THEN ">" \o UnescapedOnce(From(s, 5))
    ELSE Ch(s, 1) \o UnescapedOnce(From(s, 2))

C28_UnescapesAtMostOnce ==
    Len(cleaned) >= 1 => cleaned[1] = UnescapedOnce(StripTags(text))

(***************************************************************************)
(* C29: the output of convert_to_srt is the concatenation, in document     *)
(* order, of one block per surviving cue and nothing else; a block is the  *)
(* cue number line, the timestamp line with its dots turned into commas,   *)
(* the surviving cleaned text lines of the cue, each on a line of its own  *)
(* in their order, then one empty line.  The number and timestamp lines of *)
(* a cue without surviving text (see C7) are in the output as well, so     *)
(* this fails.                                                             *)
(***************************************************************************)
RECURSIVE DotsToCommas(_)
DotsToCommas(s) ==
    IF s = "" THEN ""
    ELSE (IF Ch(s, 1) = "." THEN "," ELSE Ch(s, 1)) \o DotsToCommas(From(s, 2))

\* the surviving cleaned text lines of the cue that starts at line b
TextLinesOfCue(lines, b) ==
    Surviving(lines, 1, { j \in 1..Len(lines) : TextOfCue(lines, b, j) })

\* the blocks of the surviving cues from line b on, the first of them numbered n
RECURSIVE Blocks(_, _, _)
Blocks(lines, b, n) ==
    IF b > Len(lines) THEN <<>>
    ELSE IF b \in SurvivingCues(lines)
         THEN <<Str(n), DotsToCommas(Strip(lines[b]))>> \o TextLinesOfCue(lines, b) \o <<"">>
                  \o Blocks(lines, b + 1, n + 1)
         ELSE Blocks(lines, b + 1, n)

C29_BlocksOfSurvivingCues ==
    vstage = "srt" =>
        /\ SrtStrings(srt_lines) = Blocks(VttLines, 1, 1)
        /\ rendered = Join(Blocks(VttLines, 1, 1), "\n")

\* with every cue boundary followed by surviving text the output is those blocks
EveryCueSurvives ==
    \A b \in 1..Len(VttLines) : OpensCue(VttLines, b) => b \in SurvivingCues(VttLines)

C29_BlocksWhenEveryCueSurvives ==
    (vstage = "srt" /\ EveryCueSurvives) => C29_BlocksOfSurvivingCues

(***************************************************************************)
(* C30: in a request the steps come in the order extract, list, select,    *)
(* fetch, transcode: the listing is asked for the extracted identifier;    *)
(* the fetch is called only after the listing has returned a non-empty     *)
(* offered list, and with a language of that list; and a body is           *)
(* transcoded only from the payload a fetch of the request has returned.   *)
(***************************************************************************)
Listed == calls.list # <<>> /\ Last(calls.list) = Returned

Fetched == calls.fetch # <<>> /\ Last(calls.fetch) = Returned

C30_StepOrder ==
    /\ pc = "start" => calls.list = <<>> /\ calls.fetch = <<>>
    /\ (pc = "list" \/ calls.list # <<>>) =>
          video_id # "" /\ video_id = extract_video_id(url)
    /\ (pc = "list" \/ ~Listed) => calls.fetch = <<>> /\ pc # "fetch"
    /\ (pc = "fetch" \/ calls.fetch # <<>>) =>
          /\ Listed
          /\ available_languages # <<>>
          /\ selected_language \in Range(available_languages)
    /\ (vtt_content # "" \/ response.status = 200) =>
          /\ Fetched
          /\ pc = "done"
          /\ response.status = 200
          /\ response.content \in { parse_vtt_content(vtt_content), convert_to_srt(vtt_content),
                                    get_clean_vtt(vtt_content) }

\* a request whose language is not offered, answered from a fetch made after a
\* listing that failed once
C30_Witness ==
    /\ route = "transcript" /\ lang = "fr"
    /\ Len(calls.list) = 2 /\ Listed
    /\ available_languages = <<"es", "en">> /\ selected_language = "en"
    /\ Fetched
    /\ vtt_content = "WEBVTT\n\n0.1 --> 0.2\na &amp; b\n"
    /\ response.status = 200 /\ response.content = "a & b"

\* the same order in an item of a batch
C30_BatchStepOrder ==
    /\ pc \in {"list", "fetch"} => video_id # "" /\ video_id = extract_video_id(url)
    /\ pc = "fetch" =>
          /\ available_languages = OfferedLanguages(info)
          /\ available_languages # <<>>
          /\ selected_language \in Range(available_languages)
    /\ \A k \in 1..Len(results) :
          /\ results[k].transcript # None <=> results[k].success
          /\ results[k].success =>
                /\ results[k].video_id = Some(extract_video_id(results[k].url))
                /\ results[k].available_languages # None
                /\ results[k].available_languages # Some(<<>>)

(***************************************************************************)
(* C31: parse_vtt_content and convert_to_srt keep the same text: for every *)
(* markup the text lines of the convert_to_srt output, those that are      *)
(* neither cue numbers nor timestamp lines nor separating empty lines, are *)
(* in content and order the lines parse_vtt_content joins with spaces.     *)
(***************************************************************************)
\* the strings of the lines of srt_lines appended as cue text
TextStrings(ls) == SrtStrings(SelectSeq(ls, LAMBDA l : l.kind = "text"))

C31_SameSurvivingText ==
    /\ vstage = "srt" =>
          /\ TextStrings(srt_lines) = ParseLoop(VttLines, 1, <<>>)
          /\ Join(TextStrings(srt_lines), " ") = parse_vtt_content(vtt_content)
    /\ vstage = "txt" =>
          rendered = Join(TextStrings(SrtLines(vtt_content)), " ")

\* a metadata line containing '-->' followed by text that is dropped, then a cue of
\* two text lines
C31_Witness ==
    /\ vstage = "srt"
    /\ vtt_content = "Kind: a --> b\n0.1 --> 0.2\n<b>Hi</b>\nHello &amp; welcome"
    /\ TextStrings(srt_lines) = <<"Hi", "Hello & welcome">>
    /\ rendered = "1\n0,1 --> 0,2\nHi\nHello & welcome\n"

\* a cue without text before a cue with text
C31_WitnessEmptyCue ==
    /\ vstage = "srt"
    /\ vtt_content = "0.1 --> 0.2\n0.1 --> 0.2\n<c>\n<b>Hi</b>"
    /\ TextStrings(srt_lines) = <<"Hi">>

(***************************************************************************)
(* C32: every result of a batch is consistent: success is true exactly     *)
(* when transcript and language are set and error is not; success is false *)
(* exactly when error is set and transcript and language are not; and      *)
(* available_languages is set exactly for the items whose listing          *)
(* returned.                                                               *)
(***************************************************************************)
\* the number of the items up to k whose url yields an identifier: the position,
\* in the log of the calls of get_video_info, of the call made for item k
ListCallOf(k) == Cardinality({ j \in 1..k : extract_video_id(urls[j]) # "" })

\* the listing of item k returned
ListingReturned(k) ==
    /\ extract_video_id(urls[k]) # ""
    /\ ListCallOf(k) <= Len(calls.list)
    /\ calls.list[ListCallOf(k)] = Returned

C32_ResultsConsistent ==
    \A k \in 1..Len(results) :
        LET r == results[k]
        IN  /\ r.success <=> (r.transcript # None /\ r.language # None /\ r.error = None)
            /\ ~r.success <=> (r.error # None /\ r.transcript = None /\ r.language = None)
            /\ r.available_languages # None <=> ListingReturned(k)

\* an item that succeeded, then an item whose listing returned no language
C32_Witness ==
    /\ Len(results) = 2
    /\ results[1].success /\ results[1].transcript = Some("a & b")
    /\ ~results[2].success /\ results[2].available_languages = Some(<<>>)
    /\ results[2].error = Some("No subtitles available for this video")

\* an invalid url, then an item whose listing failed
C32_WitnessNoListing ==
    /\ Len(results) = 2
    /\ results[1].video_id = None /\ results[1].available_languages = None
    /\ results[2].video_id # None /\ results[2].available_languages = None
    /\ Len(calls.list) = 1 /\ calls.list[1] # Returned

(***************************************************************************)
(* C33: provided every call of the external client returns or raises, a    *)
(* request ends with a response, and up to there the listing has been      *)
(* invoked at most max_retries times and the fetch at most max_retries     *)
(* times: at most 3 + 3 invocations with the defaults.                     *)
(***************************************************************************)
Invocations == Len(calls.list) + Len(calls.fetch)

WithinBound ==
    /\ Len(calls.list) <= max_retries
    /\ Len(calls.fetch) <= max_retries
    /\ Invocations <= 2 * DefaultMaxRetries

Answered == pc = "done" /\ response.status # 0

C33_EndsWithinBoundedCalls == []WithinBound /\ <>Answered

\* three invocations of the listing and three of the fetch, then the response
C33_Witness ==
    /\ Answered
    /\ Len(calls.list) = 3 /\ Len(calls.fetch) = 3
    /\ response.status = 200

\* a batch ends with its response after at most one call of get_video_info and one
\* of download_subtitles per url, each of them within the bound above
C33_BatchEndsWithinBoundedCalls ==
    /\ [](Len(calls.list) <= Len(urls) /\ Len(calls.fetch) <= Len(calls.list))
    /\ <>(pc = "done" /\ response.status = 200)

====
